---- MODULE Spec2Model ----
(***************************************************************************)
(* A model of Auto_All_System: the SQLite data layer (core/database.py),   *)
(* the worker pool (gui/worker_thread.py) and the browser-window helpers   *)
(* (create_window.py).  Each area has its own specification over its own   *)
(* variables; the other variables stay at their parked values.             *)
(***************************************************************************)
EXTENDS Integers, Sequences, FiniteSets, TLC

VARIABLES
    \* ---- database.py under threads (SpecLock)
    accounts,   \* table accounts: a set of rows
    cards,      \* table cards: a sequence of rows in id order
    cardSeq,    \* sqlite_sequence of cards (AUTOINCREMENT)
    lock,       \* threading.Lock(): NoThread or the holder
    pc,         \* per thread: position in the current DBManager call
    cur,        \* per thread: the call being executed
    todo,       \* per thread: the calls its running operation has still to make
    found,      \* per thread: result of the SELECT ... WHERE email = ?
    err,        \* per thread: the exception its last call ended with
    leaked,     \* connections left open by an exception: a sequence of holdsWriteLock flags
    calls,      \* number of operations started so far
    \* ---- upsert_account called alone (SpecUpsert)
    prev,       \* the accounts table when the call was made
    req,        \* the call: its arguments and the clock it read
    \* ---- WorkerThread.run_sheerlink (SpecPool)
    ids,          \* kwargs['ids']
    threadCount,  \* kwargs['thread_count']
    isRunning,    \* self.is_running
    mainPc,       \* position of run_sheerlink
    nextIdx,      \* position of "for bid in ids_to_process"
    futures,      \* future_to_id, in submission order: entry of ids, bid, state
    numThreads,   \* worker threads the executor has started
    yielded,      \* futures as_completed has handed out
    \* ---- card queries and card import (SpecCards, SpecImport)
    cq,           \* what the last card query returned
    imp,          \* the last import_cards_from_text call and what it returned
    \* ---- proxies table (SpecProxy)
    proxies,      \* rows of the proxies table, in id order
    proxySeq,     \* sqlite_sequence of proxies (AUTOINCREMENT)
    pq,           \* the last get_available_proxies call and what it returned
    marked,       \* ids mark_proxy_used has been executed on
    \* ---- _parse_account_line (SpecParse)
    line,         \* the line given
    parsed,       \* what it returned
    \* ---- browser windows (SpecWin)
    backend,      \* get_browser_backend()
    windows,      \* the backend's window list
    winSeq,       \* windows created so far
    created,      \* the last create_browser_window call and what it returned
    named,        \* the last get_next_window_name call and what it returned
    \* ---- backend selection (SpecBackend)
    env,          \* the BROWSER_BACKEND environment variable
    coreFile,     \* DATA_DIR/app_settings.json, read by core.backend_config
    legacyFile,   \* app_settings.json next to backend_config.py
    cache,        \* _backend_cache of the legacy module
    got,          \* the last get_backend / openBrowser call and what it gave
    \* ---- GeekEZ HTTP wrappers (SpecApi)
    api,          \* the last wrapper call: the HTTP outcome it met and what it gave
    \* ---- GeekEZ paging (SpecPage)
    profiles,     \* the list GET /profiles answers with
    paged,        \* the last list_browsers / get_browser_list call and what it gave
    \* ---- age verification (SpecAge)
    age,          \* the last process_age_verification call and what it gave
    \* ---- detect_google_one_status_dom (SpecDetect)
    clock,          \* time.time() - start, in units of the polling wait
    timeoutSeconds, \* timeout_seconds, in the same units
    det,            \* where the loop is and what the function returned
    \* ---- import_accounts_from_text (SpecAccImport)
    aimp            \* the last import_accounts_from_text call and what it returned

vars == <<accounts, cards, cardSeq, lock, pc, cur, todo, found, err, leaked, calls,
          prev, req,
          ids, threadCount, isRunning, mainPc, nextIdx, futures, numThreads, yielded,
          cq, imp, proxies, proxySeq, pq, marked, line, parsed,
          backend, windows, winSeq, created, named,
          env, coreFile, legacyFile, cache, got,
          api, profiles, paged, age, clock, timeoutSeconds, det, aimp>>

\* the variables of each area; a specification leaves the other areas parked
thrVars == <<lock, pc, cur, todo, found, err, calls>>
cardVars == <<cards, cardSeq, leaked>>
upsVars == <<prev, req>>

poolVars == <<ids, threadCount, isRunning, mainPc, nextIdx, futures, numThreads, yielded>>

cardQVars == <<cq, imp>>
proxyVars == <<proxies, proxySeq, pq, marked>>
parseVars == <<line, parsed>>
winVars == <<backend, windows, winSeq, created, named>>

cfgVars == <<env, coreFile, legacyFile, cache, got>>

\* the groups, for the specifications below that leave them alone
apiVars == <<api>>
pageVars == <<profiles, paged>>
ageVars == <<age>>
detectVars == <<clock, timeoutSeconds, det>>
accImportVars == <<aimp>>
laterVars == <<cfgVars, apiVars, pageVars, ageVars, detectVars, accImportVars>>
oldVars == <<accounts, thrVars, cardVars, upsVars, poolVars, cardQVars, proxyVars,
             parseVars, winVars>>
otherThanBackend == <<oldVars, apiVars, pageVars, ageVars, detectVars, accImportVars>>
otherThanApi == <<oldVars, cfgVars, pageVars, ageVars, detectVars, accImportVars>>
otherThanPage == <<oldVars, cfgVars, apiVars, ageVars, detectVars, accImportVars>>
otherThanAge == <<accounts, thrVars, upsVars, poolVars, cardQVars, proxyVars, parseVars,
    winVars, cfgVars, apiVars, pageVars, detectVars, accImportVars>>
otherThanDetect == <<oldVars, cfgVars, apiVars, pageVars, ageVars, accImportVars>>
otherThanAccImport == <<thrVars, upsVars, poolVars, cardQVars, proxyVars, parseVars, winVars,
    cfgVars, apiVars, pageVars, ageVars, detectVars>>

otherThanLock == <<upsVars, poolVars, cardQVars, proxyVars, parseVars, winVars,
    laterVars>>
otherThanUpsert == <<thrVars, cardVars, poolVars, cardQVars, proxyVars, parseVars, winVars,
    laterVars>>
otherThanPool == <<accounts, thrVars, cardVars, upsVars, cardQVars, proxyVars, parseVars, winVars,
    laterVars>>
otherThanCards == <<accounts, thrVars, upsVars, poolVars, proxyVars, parseVars, winVars,
    laterVars>>
otherThanProxy == <<accounts, thrVars, cardVars, upsVars, poolVars, cardQVars, parseVars, winVars,
    laterVars>>
otherThanParse == <<accounts, thrVars, cardVars, upsVars, poolVars, cardQVars, proxyVars, winVars,
    laterVars>>
otherThanWin == <<accounts, thrVars, cardVars, upsVars, poolVars, cardQVars, proxyVars, parseVars,
    laterVars>>

(***************************************************************************)
(* Values                                                                  *)
(***************************************************************************)
\* Python None / SQL NULL
None == "<None>"

NoThread == "<nobody>"

Threads == {"t1", "t2"}

Emails == {"a@x.co", "b@x.co"}

\* not None and not '' : Python truthiness of a str-or-None
Truthy(v) == v # None /\ v # ""

\* bounds of the threaded specification
MaxCalls == 3
MaxBatch == 2

(***************************************************************************)
(* accounts rows (init_db, CREATE TABLE accounts)                          *)
(***************************************************************************)
AccountRow(email, password, recovery_email, secret_key, link, browser_id, status, message, ts) ==
    [email |-> email, password |-> password, recovery_email |-> recovery_email,
     secret_key |-> secret_key, verification_link |-> link, browser_id |-> browser_id,
     status |-> status, message |-> message, updated_at |-> ts]

\* keyword arguments of upsert_account
Args(password, recovery_email, secret_key, link, browser_id, status, message) ==
    [password |-> password, recovery_email |-> recovery_email, secret_key |-> secret_key,
     link |-> link, browser_id |-> browser_id, status |-> status, message |-> message]

NoArgs == Args(None, None, None, None, None, None, None)

\* SELECT * FROM accounts WHERE email = ?
SelectByEmail(rows, email) == {r \in rows : r.email = email}

\* upsert_account: some keyword argument is not None (the list `fields` is not empty)
HasFields(a) ==
    \/ a.password # None \/ a.recovery_email # None \/ a.secret_key # None
    \/ a.link # None \/ a.browser_id # None \/ a.status # None \/ a.message # None

\* the same, with "if password:" written for "if password is not None:"
MutUpsertUpdatedRow(r, a, now) ==
    IF ~HasFields(a) THEN r
    ELSE AccountRow(r.email,
                    IF Truthy(a.password) THEN a.password ELSE r.password,
                    IF Truthy(a.recovery_email) THEN a.recovery_email ELSE r.recovery_email,
                    IF Truthy(a.secret_key) THEN a.secret_key ELSE r.secret_key,
                    IF Truthy(a.link) THEN a.link ELSE r.verification_link,
                    IF Truthy(a.browser_id) THEN a.browser_id ELSE r.browser_id,
                    IF Truthy(a.status) THEN a.status ELSE r.status,
                    IF Truthy(a.message) THEN a.message ELSE r.message,
                    now)

\* upsert_account, UPDATE branch, on one row: every argument that is not None
\* overwrites its column, and updated_at is set whenever anything is written
UpsertUpdatedRow(r, a, now) ==
    IF ~HasFields(a) THEN r
    ELSE AccountRow(r.email,
                    IF a.password # None THEN a.password ELSE r.password,
                    IF a.recovery_email # None THEN a.recovery_email ELSE r.recovery_email,
                    IF a.secret_key # None THEN a.secret_key ELSE r.secret_key,
                    IF a.link # None THEN a.link ELSE r.verification_link,
                    IF a.browser_id # None THEN a.browser_id ELSE r.browser_id,
                    IF a.status # None THEN a.status ELSE r.status,
                    IF a.message # None THEN a.message ELSE r.message,
                    now)

\* UPDATE accounts SET ... WHERE email = ?
SqlUpdateAccounts(rows, email, a, now) ==
    {IF r.email = email THEN UpsertUpdatedRow(r, a, now) ELSE r : r \in rows}

\* upsert_account, INSERT branch: status or 'pending_check'
UpsertInsertedRow(email, a, now) ==
    AccountRow(email, a.password, a.recovery_email, a.secret_key, a.link, a.browser_id,
               IF Truthy(a.status) THEN a.status ELSE "pending_check", a.message, now)

\* import_from_browsers, UPDATE branch: only empty columns are filled in
BrowserUpdatedRow(r, a) ==
    [r EXCEPT !.browser_id = IF ~Truthy(r.browser_id) THEN a.browser_id ELSE @,
              !.password = IF ~Truthy(r.password) /\ Truthy(a.password) THEN a.password ELSE @,
              !.secret_key = IF ~Truthy(r.secret_key) /\ Truthy(a.secret_key) THEN a.secret_key ELSE @]

\* import_from_browsers: the list `updates` is not empty
BrowserHasUpdates(r, a) ==
    \/ ~Truthy(r.browser_id)
    \/ ~Truthy(r.password) /\ Truthy(a.password)
    \/ ~Truthy(r.secret_key) /\ Truthy(a.secret_key)

\* import_from_browsers, INSERT branch
BrowserInsertedRow(email, a, now) ==
    AccountRow(email, a.password, a.recovery_email, a.secret_key, None, a.browser_id,
               "pending_check", None, now)

(***************************************************************************)
(* cards rows (init_db, CREATE TABLE cards): id INTEGER PRIMARY KEY         *)
(* AUTOINCREMENT, card_number UNIQUE, usage_count DEFAULT 0, max_usage,    *)
(* is_active DEFAULT 1                                                     *)
(***************************************************************************)
CardRow(id, number, usage_count, max_usage, is_active) ==
    [id |-> id, card_number |-> number, usage_count |-> usage_count,
     max_usage |-> max_usage, is_active |-> is_active]

CardNumbers(tbl) == {tbl[i].card_number : i \in 1..Len(tbl)}

\* add_card's INSERT violates UNIQUE(card_number): sqlite3.IntegrityError
CardConflict(tbl, number) == number \in CardNumbers(tbl)

\* add_card's INSERT: the new row gets the next AUTOINCREMENT id
SqlInsertCard(tbl, seq, number, max_usage) ==
    Append(tbl, CardRow(seq + 1, number, 0, max_usage, 1))

(***************************************************************************)
(* DBManager calls under threads.  Every call is                           *)
(*     with lock: conn = get_connection(); ...; conn.commit(); conn.close() *)
(* and a thread is at "wait" before the with statement, at "select",       *)
(* "write" or "close" inside it.  An exception raised inside the block     *)
(* leaves it through the context manager: the lock is released, but        *)
(* conn.close() is skipped and the connection stays open, with the         *)
(* transaction its failed statement began, until the garbage collector     *)
(* finalises it.                                                           *)
(***************************************************************************)
\* get_local_timestamp(): the threads all run within one second of the clock
Now == "00:00:00"

Call(kind, key, a) == [kind |-> kind, key |-> key, a |-> a]

NoCall == Call("none", "", NoArgs)

InBlock(t) == pc[t] \in {"select", "write", "close"}

\* SQLite's own file lock: another connection holds the write lock, so a
\* write statement ends in OperationalError('database is locked')
Busy == \E i \in 1..Len(leaked) : leaked[i]

\* the thread goes on to the next call of its operation, or returns
Proceed(t, rest) ==
    IF rest = <<>>
    THEN /\ pc' = [pc EXCEPT ![t] = "idle"]
         /\ cur' = [cur EXCEPT ![t] = NoCall]
         /\ todo' = [todo EXCEPT ![t] = <<>>]
    ELSE /\ pc' = [pc EXCEPT ![t] = "wait"]
         /\ cur' = [cur EXCEPT ![t] = Head(rest)]
         /\ todo' = [todo EXCEPT ![t] = Tail(rest)]

\* upsert_account's and import_from_browsers' except clauses swallow the
\* exception and the enclosing loop goes on; delete_account and add_card
\* let it propagate to the caller
Swallows(kind) == kind \in {"upsert", "browser"}

\* an exception inside the with block
Raise(t, e, holdsWrite) ==
    /\ lock' = IF lock = t THEN NoThread ELSE lock
    /\ leaked' = Append(leaked, holdsWrite)
    /\ err' = [err EXCEPT ![t] = e]
    /\ Proceed(t, IF Swallows(cur[t].kind) THEN todo[t] ELSE <<>>)
    /\ found' = [found EXCEPT ![t] = {}]
    /\ UNCHANGED <<accounts, cards, cardSeq, calls>>
    /\ UNCHANGED otherThanLock

\* the operation starts: its calls are queued
Start(t, units) ==
    /\ pc[t] = "idle"
    /\ calls < MaxCalls
    /\ calls' = calls + 1
    /\ err' = [err EXCEPT ![t] = None]
    /\ Proceed(t, units)
    /\ UNCHANGED <<accounts, cards, cardSeq, lock, found, leaked>>
    /\ UNCHANGED otherThanLock

\* arguments the threads call upsert_account with
UpsertInputs ==
    {Args("pw2", None, None, None, None, None, None),
     Args(None, None, None, None, None, "verified", None)}

\* upsert_account(email, ...): "if not email: return" queues nothing
CallUpsert(t) ==
    \E email \in Emails \cup {""}, a \in UpsertInputs :
        Start(t, IF Truthy(email) THEN <<Call("upsert", email, a)>> ELSE <<>>)

\* update_status(email, status, message) = upsert_account(email, status=, message=)
CallUpdateStatus(t) ==
    \E email \in Emails, st \in {"error"}, msg \in {None, "m"} :
        Start(t, <<Call("upsert", email, Args(None, None, None, None, None, st, msg))>>)

\* the parsed lines import_accounts_from_text upserts, one call each
RECURSIVE ImportUnits(_)
ImportUnits(es) ==
    IF es = <<>> THEN <<>>
    ELSE <<Call("upsert", Head(es), Args("pw", None, None, None, None, "pending_check", None))>>
             \o ImportUnits(Tail(es))

Batches == UNION {[1..n -> Emails] : n \in 1..MaxBatch}

CallImportAccounts(t) == \E es \in Batches : Start(t, ImportUnits(es))

\* the browsers import_from_browsers walks over, one locked block each
RECURSIVE BrowserUnits(_, _)
BrowserUnits(es, n) ==
    IF es = <<>> THEN <<>>
    ELSE <<Call("browser", Head(es),
                Args("pw", None, "2fa", None, IF n = 1 THEN "w1" ELSE "w2", None, None))>>
             \o BrowserUnits(Tail(es), n + 1)

CallImportBrowsers(t) == \E es \in Batches : Start(t, BrowserUnits(es, 1))

CallDelete(t) == \E email \in Emails : Start(t, <<Call("delete", email, NoArgs)>>)

CallAddCard(t) == Start(t, <<Call("add_card", "4111", NoArgs)>>)

\* with lock: conn = DBManager.get_connection(); cursor = conn.cursor()
MutAcquireNoLock(t) ==
    /\ pc[t] = "wait"
    /\ lock' = t
    /\ pc' = [pc EXCEPT ![t] = IF cur[t].kind \in {"upsert", "browser"} THEN "select" ELSE "write"]
    /\ UNCHANGED <<accounts, cards, cardSeq, cur, todo, found, err, leaked, calls>>
    /\ UNCHANGED otherThanLock

Acquire(t) ==
    /\ pc[t] = "wait"
    /\ lock = NoThread
    /\ lock' = t
    /\ pc' = [pc EXCEPT ![t] = IF cur[t].kind \in {"upsert", "browser"} THEN "select" ELSE "write"]
    /\ UNCHANGED <<accounts, cards, cardSeq, cur, todo, found, err, leaked, calls>>
    /\ UNCHANGED otherThanLock

\* cursor.execute("SELECT ... FROM accounts WHERE email = ?"); cursor.fetchone()
Select(t) ==
    /\ pc[t] = "select"
    /\ found' = [found EXCEPT ![t] = SelectByEmail(accounts, cur[t].key)]
    /\ pc' = [pc EXCEPT ![t] = "write"]
    /\ UNCHANGED <<accounts, cards, cardSeq, lock, cur, todo, err, leaked, calls>>
    /\ UNCHANGED otherThanLock

Written(t) ==
    /\ pc' = [pc EXCEPT ![t] = "close"]
    /\ UNCHANGED <<lock, cur, todo, found, err, leaked, calls>>
    /\ UNCHANGED otherThanLock

\* upsert_account, the statement after the SELECT
WriteUpsert(t) ==
    /\ pc[t] = "write" /\ cur[t].kind = "upsert"
    /\ IF found[t] # {}
       THEN IF ~HasFields(cur[t].a)
            THEN Written(t) /\ UNCHANGED <<accounts, cards, cardSeq>>
            ELSE IF Busy THEN Raise(t, "database is locked", FALSE)
            ELSE /\ accounts' = SqlUpdateAccounts(accounts, cur[t].key, cur[t].a, Now)
                 /\ Written(t) /\ UNCHANGED <<cards, cardSeq>>
       ELSE IF Busy THEN Raise(t, "database is locked", FALSE)
            ELSE IF SelectByEmail(accounts, cur[t].key) # {}
            THEN Raise(t, "UNIQUE constraint failed: accounts.email", TRUE)
            ELSE /\ accounts' = accounts \cup {UpsertInsertedRow(cur[t].key, cur[t].a, Now)}
                 /\ Written(t) /\ UNCHANGED <<cards, cardSeq>>

\* import_from_browsers, the statement after the SELECT
WriteBrowser(t) ==
    /\ pc[t] = "write" /\ cur[t].kind = "browser"
    /\ IF found[t] # {}
       THEN IF \A r \in found[t] : ~BrowserHasUpdates(r, cur[t].a)
            THEN Written(t) /\ UNCHANGED <<accounts, cards, cardSeq>>
            ELSE IF Busy THEN Raise(t, "database is locked", FALSE)
            ELSE /\ accounts' = {IF r.email = cur[t].key
                                 THEN BrowserUpdatedRow(CHOOSE f \in found[t] : TRUE, cur[t].a) ELSE r
                                 : r \in accounts}
                 /\ Written(t) /\ UNCHANGED <<cards, cardSeq>>
       ELSE IF Busy THEN Raise(t, "database is locked", FALSE)
            ELSE IF SelectByEmail(accounts, cur[t].key) # {}
            THEN Raise(t, "UNIQUE constraint failed: accounts.email", TRUE)
            ELSE /\ accounts' = accounts \cup {BrowserInsertedRow(cur[t].key, cur[t].a, Now)}
                 /\ Written(t) /\ UNCHANGED <<cards, cardSeq>>

\* delete_account: DELETE FROM accounts WHERE email = ?
WriteDelete(t) ==
    /\ pc[t] = "write" /\ cur[t].kind = "delete"
    /\ IF Busy THEN Raise(t, "database is locked", FALSE)
       ELSE /\ accounts' = accounts \ SelectByEmail(accounts, cur[t].key)
            /\ Written(t) /\ UNCHANGED <<cards, cardSeq>>

\* add_card: INSERT INTO cards ...
WriteAddCard(t) ==
    /\ pc[t] = "write" /\ cur[t].kind = "add_card"
    /\ IF Busy THEN Raise(t, "database is locked", FALSE)
       ELSE IF CardConflict(cards, cur[t].key)
       THEN Raise(t, "UNIQUE constraint failed: cards.card_number", TRUE)
       ELSE /\ cards' = SqlInsertCard(cards, cardSeq, cur[t].key, 1)
            /\ cardSeq' = cardSeq + 1
            /\ Written(t) /\ UNCHANGED accounts

\* conn.commit(); conn.close(); the with block ends
Close(t) ==
    /\ pc[t] = "close"
    /\ lock' = IF lock = t THEN NoThread ELSE lock
    /\ Proceed(t, todo[t])
    /\ found' = [found EXCEPT ![t] = {}]
    /\ UNCHANGED <<accounts, cards, cardSeq, err, leaked, calls>>
    /\ UNCHANGED otherThanLock

\* the garbage collector finalises an unreachable connection: it is closed
\* and its transaction rolled back
Collect ==
    /\ leaked # <<>>
    /\ leaked' = Tail(leaked)
    /\ UNCHANGED <<accounts, cards, cardSeq, lock, pc, cur, todo, found, err, calls>>
    /\ UNCHANGED otherThanLock

\* no thread has called anything yet
ParkThr ==
    /\ lock = NoThread
    /\ pc = [t \in Threads |-> "idle"]
    /\ cur = [t \in Threads |-> NoCall]
    /\ todo = [t \in Threads |-> <<>>]
    /\ found = [t \in Threads |-> {}]
    /\ err = [t \in Threads |-> None]
    /\ calls = 0

\* init_db on a new file: CREATE TABLE IF NOT EXISTS cards, no connection open
ParkCards ==
    /\ cards = <<>>
    /\ cardSeq = 0
    /\ leaked = <<>>

NoReq == [email |-> "<no call>", a |-> NoArgs, now |-> 0]

ParkUps ==
    /\ prev = {}
    /\ req = NoReq

\* the worker thread has not been constructed
ParkPool ==
    /\ ids = <<>>
    /\ threadCount = 1
    /\ isRunning = TRUE
    /\ mainPc = "done"
    /\ nextIdx = 1
    /\ futures = <<>>
    /\ numThreads = 0
    /\ yielded = {}

\* no call has been made
NotCalled == "<not called>"

\* a query's result is a list; get_card_from_db's None is the empty list
NoQuery == [call |-> NotCalled, result |-> <<>>]

NoImport ==
    [call |-> NotCalled, text |-> <<>>, lines |-> <<>>, before |-> <<>>,
     success_count |-> 0, error_count |-> 0, errors |-> <<>>]

ParkCardQ ==
    /\ cq = NoQuery
    /\ imp = NoImport

ParkProxy ==
    /\ proxies = <<>>
    /\ proxySeq = 0
    /\ pq = [call |-> NotCalled, limit |-> <<>>, result |-> <<>>]
    /\ marked = {}

ParkParse ==
    /\ line = [prefix |-> <<>>, fields |-> <<>>, text |-> <<>>]
    /\ parsed = [ok |-> FALSE, email |-> NotCalled, password |-> NotCalled,
                 recovery_email |-> NotCalled, secret_key |-> NotCalled,
                 verification_link |-> NotCalled]

ParkWin ==
    /\ backend = "bitbrowser"
    /\ windows = <<>>
    /\ winSeq = 0
    /\ created = [call |-> NotCalled, email |-> "", reference |-> FALSE, owned |-> FALSE,
                  id |-> 0, error |-> ""]
    /\ named = [call |-> NotCalled, prefix |-> <<>>, result |-> <<>>]

\* no settings file, no BROWSER_BACKEND, nothing cached, nothing asked
ParkCfg ==
    /\ env = <<>>
    /\ coreFile = [kind |-> "missing", type |-> "absent", chars |-> <<>>]
    /\ legacyFile = [kind |-> "missing", type |-> "absent", chars |-> <<>>]
    /\ cache = None
    /\ got = [call |-> NotCalled, cached |-> None, result |-> None, api |-> None]

ParkApi ==
    /\ api = [call |-> NotCalled,
              body |-> [kind |-> "dict", success |-> "absent", data |-> "absent",
                        keys |-> {}, texts |-> {}],
              out |-> [exc |-> None, success |-> "absent", data |-> "absent",
                       keys |-> {}, texts |-> {}]]

ParkPage ==
    /\ profiles = <<>>
    /\ paged = [call |-> NotCalled, page |-> 0, size |-> 0, reachable |-> TRUE,
                success |-> FALSE, list |-> <<>>, total |-> <<>>]

ParkAge ==
    /\ age = [call |-> NotCalled,
              card_info |-> [kind |-> "None", id |-> <<>>, flag |-> "absent"],
              outcome |-> NotCalled, ok |-> FALSE, used_card |-> FALSE,
              before |-> <<>>, after |-> <<>>]

ParkDetect ==
    /\ clock = 0
    /\ timeoutSeconds = 0
    /\ det = [pc |-> "returned", status |-> NotCalled, link |-> None,
              view |-> [subscribed |-> "hidden", verified |-> "hidden",
                        unavailable |-> "hidden", noteligible |-> "hidden",
                        link |-> [state |-> "none", text |-> "", translator |-> TRUE]],
              rounds |-> 0, missed |-> TRUE, at |-> 0]

ParkAccImport ==
    /\ aimp = [call |-> NotCalled, text |-> <<>>, lines |-> <<>>, counted |-> <<>>,
               failed |-> {}, success_count |-> 0, error_count |-> 0, errors |-> <<>>]

ParkLater ==
    /\ ParkCfg
    /\ ParkApi
    /\ ParkPage
    /\ ParkAge
    /\ ParkDetect
    /\ ParkAccImport

ParkOld ==
    /\ accounts = {}
    /\ ParkThr /\ ParkCards /\ ParkUps /\ ParkPool /\ ParkCardQ /\ ParkProxy
    /\ ParkParse /\ ParkWin

InitLock ==
    /\ ParkLater
    /\ accounts = {}
    /\ ParkThr
    /\ ParkCards
    /\ ParkUps
    /\ ParkPool
    /\ ParkCardQ /\ ParkProxy /\ ParkParse /\ ParkWin

NextLock ==
    \/ \E t \in Threads : CallUpsert(t)
    \/ \E t \in Threads : CallUpdateStatus(t)
    \/ \E t \in Threads : CallImportAccounts(t)
    \/ \E t \in Threads : CallImportBrowsers(t)
    \/ \E t \in Threads : CallDelete(t)
    \/ \E t \in Threads : CallAddCard(t)
    \/ \E t \in Threads : Acquire(t)
    \/ \E t \in Threads : Select(t)
    \/ \E t \in Threads : WriteUpsert(t)
    \/ \E t \in Threads : WriteBrowser(t)
    \/ \E t \in Threads : WriteDelete(t)
    \/ \E t \in Threads : WriteAddCard(t)
    \/ \E t \in Threads : Close(t)
    \/ Collect

SpecLock == InitLock /\ [][NextLock]_vars

\* connections that have been opened and neither closed nor committed
OpenConnections == Cardinality({t \in Threads : InBlock(t)}) + Len(leaked)

\* C1: the module-level lock serialises all SQLite access: at any time at
\* most one connection is between being opened and being closed/committed.
C1_OneOpenConnection == OpenConnections <= 1

\* C3: email is the primary key of accounts: the table never holds two rows
\* with one email, and no call ever ends in a primary-key conflict, whatever
\* the interleaving of the threads.
C3_EmailPrimaryKey ==
    /\ \A r1, r2 \in accounts : r1.email = r2.email => r1 = r2
    /\ \A t \in Threads : err[t] # "UNIQUE constraint failed: accounts.email"

\* two threads work on the same email at once: one has found the row under
\* the lock and is about to update it, the other waits to upsert it
C3_Witness ==
    \E t, u \in Threads :
        /\ t # u
        /\ pc[t] = "write" /\ cur[t].kind = "browser" /\ found[t] # {}
        /\ pc[u] = "wait" /\ cur[u].kind = "upsert" /\ cur[u].key = cur[t].key
        /\ lock = t

(***************************************************************************)
(* upsert_account and update_status as one call each, on a table that      *)
(* already holds some rows                                                 *)
(***************************************************************************)
\* upsert_account: the whole function, without a failing statement
UpsertAccount(rows, email, a, now) ==
    IF ~Truthy(email) THEN rows
    ELSE IF SelectByEmail(rows, email) # {}
         THEN IF HasFields(a) THEN SqlUpdateAccounts(rows, email, a, now) ELSE rows
         ELSE rows \cup {UpsertInsertedRow(email, a, now)}

\* rows a table may hold when the call is made
SeedRows ==
    {AccountRow("a@x.co", "pw", "r@x.co", "2fa", "http://l", "w1", "verified", "m", 0),
     AccountRow("b@x.co", None, None, None, None, None, "pending_check", None, 0)}

\* values a keyword argument may take
ArgValues == {None, "new"}
EmptyableValues == {None, "", "new"}
StatusValues == {None, "", "link_ready"}

UpsertArgs ==
    {Args(pw, re, sk, ln, bid, st, msg) :
        pw \in EmptyableValues, re \in ArgValues, sk \in ArgValues, ln \in ArgValues,
        bid \in ArgValues, st \in StatusValues, msg \in ArgValues}

\* the clock of the call: the second the rows were written in, or a later one
MaxNow == 1

SeqUpsertAccount ==
    /\ req = NoReq
    /\ \E email \in {None, "", "a@x.co", "b@x.co", "c@x.co"}, a \in UpsertArgs, now \in 0..MaxNow :
        /\ prev' = accounts
        /\ req' = [email |-> email, a |-> a, now |-> now]
        /\ accounts' = UpsertAccount(accounts, email, a, now)
    /\ UNCHANGED otherThanUpsert

\* update_status(email, status, message=None)
SeqUpdateStatus ==
    /\ req = NoReq
    /\ \E email \in {"a@x.co", "c@x.co"}, st \in {"error"}, msg \in ArgValues, now \in 0..MaxNow :
        LET a == Args(None, None, None, None, None, st, msg) IN
        /\ prev' = accounts
        /\ req' = [email |-> email, a |-> a, now |-> now]
        /\ accounts' = UpsertAccount(accounts, email, a, now)
    /\ UNCHANGED otherThanUpsert

InitUpsert ==
    /\ ParkLater
    /\ accounts \in SUBSET SeedRows
    /\ ParkUps
    /\ ParkThr
    /\ ParkCards
    /\ ParkPool
    /\ ParkCardQ /\ ParkProxy /\ ParkParse /\ ParkWin

NextUpsert == SeqUpsertAccount \/ SeqUpdateStatus

SpecUpsert == InitUpsert /\ [][NextUpsert]_vars

\* the columns upsert_account can write, and the argument each is written from
Columns ==
    {"password", "recovery_email", "secret_key", "verification_link", "browser_id",
     "status", "message"}

ArgFor(a, c) == IF c = "verification_link" THEN a.link ELSE a[c]

OtherRows(rows, email) == {r \in rows : r.email # email}

\* what the call did to the rows of other emails and, on an existing row,
\* to each column
UpsertFrame(insertedStatus) ==
    req # NoReq =>
        LET old == SelectByEmail(prev, req.email)
            new == SelectByEmail(accounts, req.email)
        IN  /\ OtherRows(accounts, req.email) = OtherRows(prev, req.email)
            /\ ~Truthy(req.email) => accounts = prev
            /\ (Truthy(req.email) /\ old = {}) =>
                   /\ Cardinality(new) = 1
                   /\ \A n \in new : n.status = insertedStatus
            /\ (Truthy(req.email) /\ old # {}) =>
                   /\ Cardinality(new) = 1
                   /\ \A o \in old, n \in new :
                        /\ \A c \in Columns :
                             n[c] = IF ArgFor(req.a, c) # None THEN ArgFor(req.a, c) ELSE o[c]
                        /\ n.updated_at = IF \E c \in Columns : ArgFor(req.a, c) # None
                                          THEN req.now ELSE o.updated_at
                   /\ (\A c \in Columns : ArgFor(req.a, c) = None) => accounts = prev

MaxIds == 3
MaxWorkers == 2

BrowserIds == {"w1", "w2"}

Future(i, bid, state) == [idx |-> i, bid |-> bid, state |-> state]

InState(st) == {k \in 1..Len(futures) : futures[k].state = st}

\* process_browser calls that are executing
Executing == Cardinality(InState("running"))

\* "if not ids_to_process: emit; return", or the import of process_browser fails
RunEmpty ==
    /\ mainPc = "start"
    /\ mainPc' = IF ids = <<>> THEN "done" ELSE "submit"
    /\ UNCHANGED <<ids, threadCount, isRunning, nextIdx, futures, numThreads, yielded>>
    /\ UNCHANGED otherThanPool

ImportFails ==
    /\ mainPc = "start"
    /\ ids # <<>>
    /\ mainPc' = "done"
    /\ UNCHANGED <<ids, threadCount, isRunning, nextIdx, futures, numThreads, yielded>>
    /\ UNCHANGED otherThanPool

\* executor.submit: the work item is queued; _adjust_thread_count starts a
\* worker when none is idle and fewer than max_workers exist
Submit ==
    /\ mainPc = "submit"
    /\ nextIdx <= Len(ids)
    /\ isRunning
    /\ futures' = Append(futures, Future(nextIdx, ids[nextIdx], "pending"))
    /\ nextIdx' = nextIdx + 1
    /\ numThreads' = IF numThreads - Executing = 0 /\ numThreads < threadCount
                     THEN numThreads + 1 ELSE numThreads
    /\ UNCHANGED <<ids, threadCount, isRunning, mainPc, yielded>>
    /\ UNCHANGED otherThanPool

\* the for loop ends: ids exhausted, or "if not self.is_running: break"
SubmitDone ==
    /\ mainPc = "submit"
    /\ nextIdx > Len(ids) \/ ~isRunning
    /\ mainPc' = "collect"
    /\ UNCHANGED <<ids, threadCount, isRunning, nextIdx, futures, numThreads, yielded>>
    /\ UNCHANGED otherThanPool

\* the same, with no limit on the workers
MutWorkerTake ==
    /\ InState("pending") # {}
    /\ LET k == CHOOSE j \in InState("pending") : \A i \in InState("pending") : j <= i
       IN futures' = [futures EXCEPT ![k].state = "running"]
    /\ UNCHANGED <<ids, threadCount, isRunning, mainPc, nextIdx, numThreads, yielded>>
    /\ UNCHANGED otherThanPool

\* _worker: an idle worker thread takes the oldest queued work item
WorkerTake ==
    /\ InState("pending") # {}
    /\ Executing < numThreads
    /\ LET k == CHOOSE j \in InState("pending") : \A i \in InState("pending") : j <= i
       IN futures' = [futures EXCEPT ![k].state = "running"]
    /\ UNCHANGED <<ids, threadCount, isRunning, mainPc, nextIdx, numThreads, yielded>>
    /\ UNCHANGED otherThanPool

\* process_browser returns or raises
WorkerFinish ==
    /\ \E k \in InState("running") : futures' = [futures EXCEPT ![k].state = "finished"]
    /\ UNCHANGED <<ids, threadCount, isRunning, mainPc, nextIdx, numThreads, yielded>>
    /\ UNCHANGED otherThanPool

\* as_completed hands out a finished future and the loop body counts it
Collected ==
    /\ mainPc = "collect"
    /\ isRunning
    /\ \E k \in InState("finished") \ yielded : yielded' = yielded \cup {k}
    /\ UNCHANGED <<ids, threadCount, isRunning, mainPc, nextIdx, futures, numThreads>>
    /\ UNCHANGED otherThanPool

\* as_completed hands out a future after stop(): shutdown(wait=False,
\* cancel_futures=True) cancels what is still queued, and the loop breaks
CollectStopped ==
    /\ mainPc = "collect"
    /\ ~isRunning
    /\ InState("finished") \ yielded # {}
    /\ futures' = [k \in 1..Len(futures) |->
                     IF futures[k].state = "pending"
                     THEN [futures[k] EXCEPT !.state = "cancelled"] ELSE futures[k]]
    /\ mainPc' = "exit"
    /\ UNCHANGED <<ids, threadCount, isRunning, nextIdx, numThreads, yielded>>
    /\ UNCHANGED otherThanPool

\* as_completed is exhausted
CollectDone ==
    /\ mainPc = "collect"
    /\ yielded = 1..Len(futures)
    /\ mainPc' = "exit"
    /\ UNCHANGED <<ids, threadCount, isRunning, nextIdx, futures, numThreads, yielded>>
    /\ UNCHANGED otherThanPool

\* the with statement ends: shutdown(wait=True) returns once the workers
\* have run everything that was not cancelled
PoolExit ==
    /\ mainPc = "exit"
    /\ InState("pending") = {} /\ InState("running") = {}
    /\ mainPc' = "done"
    /\ UNCHANGED <<ids, threadCount, isRunning, nextIdx, futures, numThreads, yielded>>
    /\ UNCHANGED otherThanPool

\* WorkerThread.stop(), called from the GUI thread
Stop ==
    /\ mainPc # "done"
    /\ isRunning
    /\ isRunning' = FALSE
    /\ UNCHANGED <<ids, threadCount, mainPc, nextIdx, futures, numThreads, yielded>>
    /\ UNCHANGED otherThanPool

InitPool ==
    /\ ParkLater
    /\ ids \in UNION {[1..n -> BrowserIds] : n \in 0..MaxIds}
    /\ threadCount \in 1..MaxWorkers
    /\ isRunning = TRUE
    /\ mainPc = "start"
    /\ nextIdx = 1
    /\ futures = <<>>
    /\ numThreads = 0
    /\ yielded = {}
    /\ accounts = {}
    /\ ParkThr
    /\ ParkCards
    /\ ParkUps
    /\ ParkCardQ /\ ParkProxy /\ ParkParse /\ ParkWin

NextPool ==
    \/ RunEmpty
    \/ ImportFails
    \/ Submit
    \/ SubmitDone
    \/ WorkerTake
    \/ WorkerFinish
    \/ Collected
    \/ CollectStopped
    \/ CollectDone
    \/ PoolExit
    \/ Stop

SpecPool == InitPool /\ [][NextPool]_vars

\* C2: the tasks run on a fixed-size pool: at any moment at most
\* thread_count process_browser calls are executing, and every entry of
\* ids is submitted to the pool at most once.
C2_FixedPool ==
    /\ Executing <= threadCount
    /\ \A j, k \in 1..Len(futures) : futures[j].idx = futures[k].idx => j = k
    /\ \A k \in 1..Len(futures) : futures[k].bid = ids[futures[k].idx]

\* the pool is full and a submitted task waits for a worker
C2_Witness ==
    /\ threadCount = 2 /\ Executing = 2
    /\ InState("pending") # {}
    /\ Len(futures) = Len(ids)

(***************************************************************************)
(* The cards table under sequential calls: add_card, increment_card_usage, *)
(* set_card_active, delete_card, clear_all_cards, get_available_cards and  *)
(* the two get_card_from_db                                                *)
(***************************************************************************)
MaxCardId == 3
MaxUsage == 2
MaxLeaks == 2

CardNums == {"41", "52"}

CardIds(tbl) == {tbl[i].id : i \in 1..Len(tbl)}

\* what one statement-running call leaves behind: the table, the
\* AUTOINCREMENT counter, the connections left open, the exception raised
Outcome(tbl, seq, lk, exc) == [cards |-> tbl, seq |-> seq, leaked |-> lk, exc |-> exc]

HoldsWrite(lk) == \E i \in 1..Len(lk) : lk[i]

\* a writing call: the write statement fails with "database is locked" while
\* a finalisable connection still holds the write lock; an exception leaves
\* the with block before conn.commit() and conn.close()
WriteOutcome(tbl, seq, lk, conflict, newTbl, newSeq) ==
    IF HoldsWrite(lk) THEN Outcome(tbl, seq, Append(lk, FALSE), "database is locked")
    ELSE IF conflict THEN Outcome(tbl, seq, Append(lk, TRUE), "IntegrityError")
    ELSE Outcome(newTbl, newSeq, lk, None)

AddCardOutcome(tbl, seq, lk, number, max_usage) ==
    WriteOutcome(tbl, seq, lk, CardConflict(tbl, number),
                 SqlInsertCard(tbl, seq, number, max_usage), seq + 1)

\* UPDATE cards SET usage_count = usage_count + 1 WHERE id = ?
SqlIncrementUsage(tbl, id) ==
    [i \in 1..Len(tbl) |->
       IF tbl[i].id = id THEN [tbl[i] EXCEPT !.usage_count = @ + 1] ELSE tbl[i]]

\* UPDATE cards SET is_active = ? WHERE id = ?, with 1 if is_active else 0
SqlSetActive(tbl, id, is_active) ==
    [i \in 1..Len(tbl) |->
       IF tbl[i].id = id THEN [tbl[i] EXCEPT !.is_active = IF is_active THEN 1 ELSE 0]
       ELSE tbl[i]]

\* DELETE FROM cards WHERE id = ?
SqlDeleteCard(tbl, id) == SelectSeq(tbl, LAMBDA r : r.id # id)

Apply(o) ==
    /\ cards' = o.cards
    /\ cardSeq' = o.seq
    /\ leaked' = o.leaked
    /\ cq' = NoQuery
    /\ imp' = NoImport
    /\ UNCHANGED otherThanCards

AddCard ==
    /\ cardSeq < MaxCardId
    /\ Len(leaked) < MaxLeaks
    /\ \E number \in CardNums, max_usage \in 1..MaxUsage :
          Apply(AddCardOutcome(cards, cardSeq, leaked, number, max_usage))

IncrementCardUsage ==
    /\ Len(leaked) < MaxLeaks
    /\ \E id \in 1..MaxCardId :
          /\ \A i \in 1..Len(cards) : cards[i].id = id => cards[i].usage_count < MaxUsage
          /\ Apply(WriteOutcome(cards, cardSeq, leaked, FALSE,
                     SqlIncrementUsage(cards, id), cardSeq))

SetCardActive ==
    /\ Len(leaked) < MaxLeaks
    /\ \E id \in 1..MaxCardId, is_active \in BOOLEAN :
          Apply(WriteOutcome(cards, cardSeq, leaked, FALSE,
                   SqlSetActive(cards, id, is_active), cardSeq))

DeleteCard ==
    /\ Len(leaked) < MaxLeaks
    /\ \E id \in 1..MaxCardId :
          Apply(WriteOutcome(cards, cardSeq, leaked, FALSE, SqlDeleteCard(cards, id), cardSeq))

ClearAllCards ==
    /\ Len(leaked) < MaxLeaks
    /\ Apply(WriteOutcome(cards, cardSeq, leaked, FALSE, <<>>, cardSeq))

\* the garbage collector finalises the connections left open
CollectCards ==
    /\ leaked # <<>>
    /\ leaked' = <<>>
    /\ UNCHANGED <<cards, cardSeq, cq, imp>>
    /\ UNCHANGED otherThanCards

\* the query without the usage limit
MutAvailable(r) == r.is_active = 1

\* WHERE is_active = 1 AND usage_count < max_usage
Available(r) == r.is_active = 1 /\ r.usage_count < r.max_usage

\* ORDER BY usage_count ASC, id ASC
CardBefore(a, b) ==
    \/ a.usage_count < b.usage_count
    \/ a.usage_count = b.usage_count /\ a.id < b.id

RECURSIVE OrderCards(_)
OrderCards(rows) ==
    IF rows = {} THEN <<>>
    ELSE LET first == CHOOSE r \in rows : \A o \in rows \ {r} : CardBefore(r, o)
         IN <<first>> \o OrderCards(rows \ {first})

SqlSelectAvailable(tbl) ==
    OrderCards({tbl[i] : i \in {j \in 1..Len(tbl) : Available(tbl[j])}})

\* a SELECT reads next to a connection that holds the write lock
GetAvailableCards ==
    /\ cq' = [call |-> "get_available_cards", result |-> SqlSelectAvailable(cards)]
    /\ imp' = NoImport
    /\ UNCHANGED <<cards, cardSeq, leaked>>
    /\ UNCHANGED otherThanCards

\* bind_card_service / age_verification_service: cards[0], or None
GetCardFromDb ==
    /\ LET rows == SqlSelectAvailable(cards)
       IN cq' = [call |-> "get_card_from_db",
                 result |-> IF rows # <<>>
                            THEN <<[id |-> rows[1].id, number |-> rows[1].card_number]>>
                            ELSE <<>>]
    /\ imp' = NoImport
    /\ UNCHANGED <<cards, cardSeq, leaked>>
    /\ UNCHANGED otherThanCards

InitCards ==
    /\ ParkLater
    /\ ParkCards
    /\ ParkCardQ
    /\ accounts = {}
    /\ ParkThr /\ ParkUps /\ ParkPool /\ ParkProxy /\ ParkParse /\ ParkWin

NextCards ==
    \/ AddCard
    \/ IncrementCardUsage
    \/ SetCardActive
    \/ DeleteCard
    \/ ClearAllCards
    \/ CollectCards
    \/ GetAvailableCards
    \/ GetCardFromDb

SpecCards == InitCards /\ [][NextCards]_vars

CardSet == {cards[i] : i \in 1..Len(cards)}

UsableCards == {r \in CardSet : r.is_active = 1 /\ r.usage_count < r.max_usage}

\* C5: get_available_cards returns exactly the active cards whose usage
\* count is below max_usage, each once, ordered by ascending usage_count and
\* then ascending id; get_card_from_db returns the least-used such card
\* (the lowest id among the least used), or None when there is none.
C5_AvailableCards ==
    /\ cq.call = "get_available_cards" =>
          LET res == cq.result
          IN /\ {res[i] : i \in 1..Len(res)} = UsableCards
             /\ Len(res) = Cardinality(UsableCards)
             /\ \A i, j \in 1..Len(res) :
                   i < j => \/ res[i].usage_count < res[j].usage_count
                            \/ /\ res[i].usage_count = res[j].usage_count
                               /\ res[i].id < res[j].id
    /\ cq.call = "get_card_from_db" =>
          IF UsableCards = {} THEN cq.result = <<>>
          ELSE \E r \in UsableCards :
                  /\ cq.result = <<[id |-> r.id, number |-> r.card_number]>>
                  /\ \A o \in UsableCards :
                        \/ r.usage_count < o.usage_count
                        \/ r.usage_count = o.usage_count /\ r.id <= o.id

\* a query that returns a used card after an unused card of higher id
C5_Witness ==
    /\ cq.call = "get_available_cards"
    /\ Len(cq.result) = 2
    /\ cq.result[1].id > cq.result[2].id
    /\ cq.result[2].usage_count > 0

\* a query that leaves out an exhausted card and an inactive card
C5_WitnessLeftOut ==
    /\ cq.call = "get_available_cards"
    /\ cq.result = <<>>
    /\ \E r \in CardSet : r.is_active = 1 /\ r.usage_count = r.max_usage
    /\ \E r \in CardSet : r.is_active = 0 /\ r.usage_count < r.max_usage

\* get_card_from_db picks the least used card, not the first row
C5_WitnessCard ==
    /\ cq.call = "get_card_from_db"
    /\ cq.result # <<>>
    /\ cq.result[1].id = 2
    /\ Len(cards) >= 2 /\ cards[1].id = 1 /\ Available(cards[1])

(***************************************************************************)
(* import_cards_from_text.  A line is a sequence of characters; the prefix *)
(* "分隔符=" is written as the one character "sep=", the messages          *)
(* '卡号已存在' and '无法解析' as "card number exists" and "cannot parse". *)
(* A text is the sequence of the lines between its newlines.               *)
(***************************************************************************)
MaxLines == 2

\* str.lstrip / str.rstrip / str.strip
RECURSIVE LStrip(_)
LStrip(s) == IF s # <<>> /\ Head(s) = " " THEN LStrip(Tail(s)) ELSE s

RECURSIVE RStrip(_)
RStrip(s) == IF s # <<>> /\ s[Len(s)] = " " THEN RStrip(SubSeq(s, 1, Len(s) - 1)) ELSE s

Strip(s) == RStrip(LStrip(s))

StartsWith(s, p) == Len(s) >= Len(p) /\ SubSeq(s, 1, Len(p)) = p

Contains(s, ch) == \E i \in 1..Len(s) : s[i] = ch

\* str.split(sep)
RECURSIVE SplitAcc(_, _, _)
SplitAcc(s, sep, part) ==
    IF s = <<>> THEN <<part>>
    ELSE IF StartsWith(s, sep)
         THEN <<part>> \o SplitAcc(SubSeq(s, Len(sep) + 1, Len(s)), sep, <<>>)
         ELSE SplitAcc(Tail(s), sep, Append(part, Head(s)))

Split(s, sep) == SplitAcc(s, sep, <<>>)

\* str.split(): on runs of whitespace, no empty fields
SplitWs(s) == SelectSeq(Split(s, <<" ">>), LAMBDA f : f # <<>>)

\* str.replace(ch, '')
Remove(s, ch) == SelectSeq(s, LAMBDA c : c # ch)

\* the characters as one string
RECURSIVE Str(_)
Str(s) == IF s = <<>> THEN "" ELSE Head(s) \o Str(Tail(s))

Dashes == <<"-", "-", "-", "-">>

NoCard == [ok |-> FALSE, number |-> "", exp_month |-> "", exp_year |-> "", cvv |-> ""]

Card(number, exp_month, exp_year, cvv) ==
    [ok |-> TRUE, number |-> Str(Remove(Remove(number, "-"), " ")),
     exp_month |-> Str(exp_month), exp_year |-> Str(exp_year), cvv |-> Str(cvv)]

\* _parse_card_line, up to the expiry and the cvv (the fields after them do
\* not decide whether the line parses or which card number it names)
ParseCardLine(l0) ==
    LET l == Strip(l0)
        ws == SplitWs(l)
        parts == IF Len(ws) < 3 THEN Split(l, Dashes) ELSE ws
    IN IF Len(parts) < 3 THEN NoCard
       ELSE LET four == IF Len(parts) >= 4
                        THEN Card(parts[1], parts[2], parts[3], parts[4])
                        ELSE NoCard
            IN IF Contains(parts[2], "/")
               THEN LET exp == Split(parts[2], <<"/">>)
                        rest == SubSeq(parts[2], Len(exp[1]) + 2, Len(parts[2]))
                    IN IF exp[1] # <<>> /\ rest # <<>>
                       THEN Card(parts[1], exp[1], rest, parts[3])
                       ELSE four
               ELSE four

\* "if not line or line.startswith('#') or line.startswith('分隔符=')"
Skipped(l0) ==
    LET l == Strip(l0)
    IN l = <<>> \/ StartsWith(l, <<"#">>) \/ StartsWith(l, <<"sep=">>)

RECURSIVE DropBlankHead(_)
DropBlankHead(ls) ==
    IF ls # <<>> /\ Strip(Head(ls)) = <<>> THEN DropBlankHead(Tail(ls)) ELSE ls

Reverse(q) == [i \in 1..Len(q) |-> q[Len(q) + 1 - i]]

\* text.strip().split('\n')
TextLines(text) ==
    LET a == DropBlankHead(text)
        b == Reverse(DropBlankHead(Reverse(a)))
    IN IF b = <<>> THEN << <<>> >>
       ELSE [i \in 1..Len(b) |->
               LET x == IF i = 1 THEN LStrip(b[i]) ELSE b[i]
               IN IF i = Len(b) THEN RStrip(x) ELSE x]

ImportState(o, success, errors) ==
    [o |-> o, success_count |-> success, error_count |-> Len(errors), errors |-> errors]

\* the body of "for line_num, line in enumerate(lines, 1)" for one line;
\* gcs are the lines before which the garbage collector runs
ImportLine(st, l, line_num, gcs) ==
    LET lk == IF line_num \in gcs THEN <<>> ELSE st.o.leaked
        card == ParseCardLine(l)
        o == AddCardOutcome(st.o.cards, st.o.seq, lk, card.number, 1)
    IN IF Skipped(l) THEN st
       ELSE IF ~card.ok
            THEN ImportState(st.o, st.success_count,
                             Append(st.errors, <<line_num, "cannot parse">>))
       ELSE IF o.exc = None
            THEN ImportState(o, st.success_count + 1, st.errors)
       ELSE IF o.exc = "IntegrityError"
            THEN ImportState(o, st.success_count,
                             Append(st.errors, <<line_num, "card number exists">>))
       ELSE ImportState(o, st.success_count, Append(st.errors, <<line_num, o.exc>>))

RECURSIVE ImportLoop(_, _, _, _)
ImportLoop(st, ls, line_num, gcs) ==
    IF line_num > Len(ls) THEN st
    ELSE ImportLoop(ImportLine(st, ls[line_num], line_num, gcs), ls, line_num + 1, gcs)

ImportTexts ==
    { <<"4", "1", " ", "1", " ", "3", " ", "9">>,
      <<"4", "-", "1", " ", "1", " ", "3", " ", "9">>,
      <<"5", "2", " ", "1", "/", "3", " ", "9">>,
      <<"5", "2">> \o Dashes \o <<"1">> \o Dashes \o <<"3">> \o Dashes \o <<"9">>,
      <<"#", " ", "c">>,
      <<" ">>,
      <<"sep=">> \o Dashes,
      <<"x", "x">> }

ImportCardsFromText ==
    /\ imp.call = NotCalled
    /\ Len(leaked) < MaxLeaks
    /\ \E text \in UNION {[1..n -> ImportTexts] : n \in 1..MaxLines} :
       \E gcs \in SUBSET (1..Len(TextLines(text))) :
          LET ls == TextLines(text)
              st == ImportLoop(ImportState(Outcome(cards, cardSeq, leaked, None), 0, <<>>),
                               ls, 1, gcs)
          IN /\ st.o.seq <= MaxCardId
             /\ cards' = st.o.cards
             /\ cardSeq' = st.o.seq
             /\ leaked' = st.o.leaked
             /\ imp' = [call |-> "import_cards_from_text", text |-> text, lines |-> ls,
                        before |-> cards, success_count |-> st.success_count,
                        error_count |-> st.error_count, errors |-> st.errors]
    /\ cq' = NoQuery
    /\ UNCHANGED otherThanCards

InitImport == InitCards

NextImport ==
    \/ ImportCardsFromText
    \/ AddCard
    \/ DeleteCard
    \/ CollectCards

SpecImport == InitImport /\ [][NextImport]_vars

\* the lines of the text that are neither blank nor comments
CountedLines(ls) ==
    {i \in 1..Len(ls) : Strip(ls[i]) # <<>> /\ ~StartsWith(Strip(ls[i]), <<"#">>)}

\* C7: import_cards_from_text treats a card number that already exists as
\* an error: its line is counted in error_count with the message
\* '卡号已存在', the rows that existed are unchanged, later lines are still
\* processed, and on return success_count + error_count is the number of
\* non-blank, non-comment lines and len(errors) = error_count.
C7_DuplicateCardLines ==
    imp.call = "import_cards_from_text" =>
       /\ \A i \in CountedLines(imp.lines) :
             LET card == ParseCardLine(imp.lines[i])
             IN (card.ok /\ CardConflict(imp.before, card.number)) =>
                   \E k \in 1..Len(imp.errors) : imp.errors[k] = <<i, "card number exists">>
       /\ Len(cards) >= Len(imp.before)
       /\ SubSeq(cards, 1, Len(imp.before)) = imp.before
       /\ \A i \in CountedLines(imp.lines) :
             \/ \E k \in 1..Len(imp.errors) : imp.errors[k][1] = i
             \/ CardConflict(cards, ParseCardLine(imp.lines[i]).number)
       /\ imp.success_count + imp.error_count = Cardinality(CountedLines(imp.lines))
       /\ Len(imp.errors) = imp.error_count

(***************************************************************************)
(* The proxies table under sequential calls.  id INTEGER PRIMARY KEY       *)
(* AUTOINCREMENT, is_used DEFAULT 0, used_by; no column is UNIQUE, so no   *)
(* proxy call raises by itself                                            *)
(***************************************************************************)
MaxProxyId == 3

Hosts == {"h1", "h2"}

ProxyRow(id, host, is_used, used_by) ==
    [id |-> id, host |-> host, is_used |-> is_used, used_by |-> used_by]

ProxyIds(tbl) == {tbl[i].id : i \in 1..Len(tbl)}

\* an INSERT that takes the largest id of the table plus one
MutSqlInsertProxy(tbl, seq, host) ==
    LET top == IF tbl = <<>> THEN 0 ELSE tbl[Len(tbl)].id
    IN Append(tbl, ProxyRow(top + 1, host, 0, None))

\* add_proxy's INSERT: the new row gets the next AUTOINCREMENT id
SqlInsertProxy(tbl, seq, host) == Append(tbl, ProxyRow(seq + 1, host, 0, None))

\* limit=None is the empty list, limit=n the list of n
NoLimit == <<>>

ProxyLimits == {NoLimit, <<-1>>, <<0>>, <<1>>, <<2>>}

\* "if limit:"
LimitGiven(limit) == limit # NoLimit /\ limit[1] # 0

\* LIMIT n of SQLite: a negative n is no limit
SqlLimit(rows, n) ==
    IF n < 0 \/ n >= Len(rows) THEN rows ELSE SubSeq(rows, 1, n)

\* SELECT * FROM proxies WHERE is_used = 0 ORDER BY id [LIMIT n]
SqlSelectUnused(tbl, limit) ==
    LET rows == SelectSeq(tbl, LAMBDA r : r.is_used = 0)
    IN IF LimitGiven(limit) THEN SqlLimit(rows, limit[1]) ELSE rows

NoProxyQuery == [call |-> NotCalled, limit |-> NoLimit, result |-> <<>>]

AddProxy ==
    /\ proxySeq < MaxProxyId
    /\ \E host \in Hosts : proxies' = SqlInsertProxy(proxies, proxySeq, host)
    /\ proxySeq' = proxySeq + 1
    /\ pq' = NoProxyQuery
    /\ UNCHANGED marked
    /\ UNCHANGED otherThanProxy

MarkProxyUsed ==
    /\ \E proxy_id \in 1..MaxProxyId, used_by_email \in Emails :
          /\ proxies' = [i \in 1..Len(proxies) |->
                           IF proxies[i].id = proxy_id
                           THEN [proxies[i] EXCEPT !.is_used = 1, !.used_by = used_by_email]
                           ELSE proxies[i]]
          /\ marked' = IF proxy_id \in ProxyIds(proxies)
                       THEN marked \cup {proxy_id} ELSE marked
    /\ pq' = NoProxyQuery
    /\ UNCHANGED proxySeq
    /\ UNCHANGED otherThanProxy

DeleteProxy ==
    /\ \E proxy_id \in 1..MaxProxyId :
          proxies' = SelectSeq(proxies, LAMBDA r : r.id # proxy_id)
    /\ pq' = NoProxyQuery
    /\ UNCHANGED <<proxySeq, marked>>
    /\ UNCHANGED otherThanProxy

ClearAllProxies ==
    /\ proxies' = <<>>
    /\ pq' = NoProxyQuery
    /\ UNCHANGED <<proxySeq, marked>>
    /\ UNCHANGED otherThanProxy

GetAvailableProxies ==
    /\ \E limit \in ProxyLimits :
          pq' = [call |-> "get_available_proxies", limit |-> limit,
                 result |-> SqlSelectUnused(proxies, limit)]
    /\ UNCHANGED <<proxies, proxySeq, marked>>
    /\ UNCHANGED otherThanProxy

InitProxy ==
    /\ ParkLater
    /\ ParkProxy
    /\ accounts = {}
    /\ ParkThr /\ ParkCards /\ ParkUps /\ ParkPool /\ ParkCardQ /\ ParkParse /\ ParkWin

NextProxy ==
    \/ AddProxy
    \/ MarkProxyUsed
    \/ DeleteProxy
    \/ ClearAllProxies
    \/ GetAvailableProxies

SpecProxy == InitProxy /\ [][NextProxy]_vars

\* the ids of the unused proxies
UnusedIds == {proxies[i].id : i \in {k \in 1..Len(proxies) : proxies[k].is_used = 0}}

\* result is the first n unused proxies in id order
FirstUnused(result, n) ==
    /\ Len(result) = n
    /\ \A i \in 1..Len(result) :
          /\ result[i] \in {proxies[k] : k \in 1..Len(proxies)}
          /\ result[i].is_used = 0
          /\ Cardinality({id \in UnusedIds : id < result[i].id}) = i - 1

Smaller(a, b) == IF a < b THEN a ELSE b

NeverReturnedAgain ==
    \A i \in 1..Len(pq.result) : pq.result[i].id \notin marked

\* C6 as stated: the result is truncated to limit whenever a limit is given
C6_ProxiesAsStated ==
    pq.call = "get_available_proxies" =>
       /\ FirstUnused(pq.result,
                      IF pq.limit = NoLimit THEN Cardinality(UnusedIds)
                      ELSE Smaller(pq.limit[1], Cardinality(UnusedIds)))
       /\ NeverReturnedAgain

\* C6: get_available_proxies returns exactly the proxies with is_used = 0,
\* in id order, truncated to limit when limit is a positive number (with
\* limit None, 0 or negative it returns all of them); once mark_proxy_used
\* has been executed on a proxy p of the table, p is never returned by a
\* later get_available_proxies.
C6_AvailableProxies ==
    pq.call = "get_available_proxies" =>
       /\ FirstUnused(pq.result,
                      IF pq.limit # NoLimit /\ pq.limit[1] > 0
                      THEN Smaller(pq.limit[1], Cardinality(UnusedIds))
                      ELSE Cardinality(UnusedIds))
       /\ NeverReturnedAgain

\* a truncated query made while a marked proxy is in the table, ahead of the
\* two unused ones
C6_Witness ==
    /\ pq.call = "get_available_proxies"
    /\ pq.limit = <<1>>
    /\ Len(pq.result) = 1
    /\ Cardinality(UnusedIds) = 2
    /\ \E id \in marked : id \in ProxyIds(proxies) /\ id < pq.result[1].id

(***************************************************************************)
(* _parse_account_line(line), separator '----'.  A line is a sequence of   *)
(* characters; the scheme "https://" is written as one character.          *)
(***************************************************************************)
MaxFields == 4

FEmail == <<"a", "@", "b", ".", "c">>
FPassword == <<"p", "w">>
FAtNoDot == <<"x", "@", "y">>
FKey == <<"K", "7">>
FDateRange == <<"2", "0", "2", "0", "-", "2", "0", "2", "4">>
FLink == <<"https://", "x", ".", "c", "/", "v">>

AccountFields == {FEmail, FPassword, FAtNoDot, FKey, FDateRange}

Digits == {"0", "1", "2", "3", "4", "5", "6", "7", "8", "9"}

\* separator.join(fields)
RECURSIVE Join(_, _)
Join(fs, sep) ==
    IF fs = <<>> THEN <<>>
    ELSE IF Len(fs) = 1 THEN fs[1]
    ELSE fs[1] \o sep \o Join(Tail(fs), sep)

\* str.replace(sub, '')
RECURSIVE ReplaceAll(_, _)
ReplaceAll(t, sub) ==
    IF t = <<>> THEN <<>>
    ELSE IF StartsWith(t, sub) THEN ReplaceAll(SubSeq(t, Len(sub) + 1, Len(t)), sub)
    ELSE <<Head(t)>> \o ReplaceAll(Tail(t), sub)

\* re.search(r'https?://[^\s]+', line): the first scheme that a non-space
\* character follows, up to the next whitespace; <<>> when there is none
LinkMatch(t) ==
    LET starts == {i \in 1..Len(t) - 1 : t[i] = "https://" /\ t[i + 1] # " "}
    IN IF starts = {} THEN <<>>
       ELSE LET i == CHOOSE k \in starts : \A o \in starts : k <= o
                spaces == {k \in i..Len(t) : t[k] = " "}
                j == IF spaces = {} THEN Len(t)
                     ELSE (CHOOSE k \in spaces : \A o \in spaces : k <= o) - 1
            IN SubSeq(t, i, j)

\* re.match(r'^\d{4}-\d{4}$', s)
IsDateRange(f) ==
    /\ Len(f) = 9
    /\ f[5] = "-"
    /\ \A i \in {1, 2, 3, 4, 6, 7, 8, 9} : f[i] \in Digits

\* "'@' in s and '.' in s"
EmailLike(f) == Contains(f, "@") /\ Contains(f, ".")

Account(ok, email, password, recovery_email, secret_key, link) ==
    [ok |-> ok, email |-> email, password |-> password, recovery_email |-> recovery_email,
     secret_key |-> secret_key, verification_link |-> link]

\* return None
NoAccount == Account(FALSE, None, None, None, None, None)

ParseAccountLine(l0) ==
    LET l1 == Strip(l0)
        l2 == IF Contains(l1, "#") THEN Strip(Split(l1, <<"#">>)[1]) ELSE l1
        link == LinkMatch(l2)
        removed == Strip(ReplaceAll(l2, link))
        l3 == IF link = <<>> THEN l2
              ELSE IF StartsWith(removed, Dashes)
                   THEN Strip(SubSeq(removed, Len(Dashes) + 1, Len(removed)))
                   ELSE removed
        split == Split(l3, Dashes)
        stripped == [i \in 1..Len(split) |-> Strip(split[i])]
        parts == SelectSeq(stripped, LAMBDA f : f # <<>> /\ ~IsDateRange(f))
        third == IF Len(parts) >= 3 /\ EmailLike(parts[3]) THEN Str(parts[3]) ELSE None
        key == IF Len(parts) >= 3 /\ ~EmailLike(parts[3]) THEN Str(parts[3]) ELSE None
    IN IF l1 = <<>> \/ l2 = <<>> THEN NoAccount
       ELSE IF Len(parts) < 2 THEN NoAccount
       ELSE IF ~EmailLike(parts[1]) THEN NoAccount
       ELSE Account(TRUE, Str(parts[1]), Str(parts[2]),
                    IF Len(parts) >= 4 /\ third = None /\ EmailLike(parts[4])
                    THEN Str(parts[4]) ELSE third,
                    IF Len(parts) >= 4 /\ third # None THEN Str(parts[4]) ELSE key,
                    IF link = <<>> THEN None ELSE Str(link))

\* how a line is written: the link in front of the fields, if any, and the
\* comment behind them, if any
LinkPrefixes == {<<>>, FLink \o Dashes, FLink \o <<" ">> \o Dashes}
CommentSuffixes == {<<>>, <<" ", "#", "c">>}

ParseInput(prefix, fields, suffix) ==
    [prefix |-> prefix, fields |-> fields,
     text |-> prefix \o Join(fields, Dashes) \o suffix]

NotParsed == Account(FALSE, NotCalled, NotCalled, NotCalled, NotCalled, NotCalled)

ParseLine ==
    /\ parsed = NotParsed
    /\ parsed' = ParseAccountLine(line.text)
    /\ UNCHANGED line
    /\ UNCHANGED otherThanParse

InitParse ==
    /\ ParkLater
    /\ line \in {ParseInput(prefix, fields, suffix) :
                   prefix \in LinkPrefixes,
                   fields \in UNION {[1..n -> AccountFields] : n \in 1..MaxFields},
                   suffix \in CommentSuffixes}
    /\ parsed = NotParsed
    /\ accounts = {}
    /\ ParkThr /\ ParkCards /\ ParkUps /\ ParkPool /\ ParkCardQ /\ ParkProxy /\ ParkWin

NextParse == ParseLine

SpecParse == InitParse /\ [][NextParse]_vars

\* what the documented formats give for fields f1..fn and a leading link
Documented(fields, prefix) ==
    LET f == SelectSeq(fields, LAMBDA x : ~IsDateRange(x))
        n == Len(f)
    IN IF n < 2 \/ ~EmailLike(f[1]) THEN NoAccount
       ELSE Account(TRUE, Str(f[1]), Str(f[2]),
                    IF n >= 3 /\ Contains(f[3], "@") THEN Str(f[3])
                    ELSE IF n >= 4 /\ EmailLike(f[4]) THEN Str(f[4]) ELSE None,
                    IF n >= 3 /\ ~Contains(f[3], "@") THEN Str(f[3])
                    ELSE IF n >= 4 THEN Str(f[4]) ELSE None,
                    IF prefix = <<>> THEN None ELSE Str(FLink))

\* C8: _parse_account_line follows its documented formats: with fields
\* f1..fn, after removing a leading link (which becomes verification_link)
\* and any NNNN-NNNN field, it returns None unless n >= 2 and f1 contains
\* '@' and '.'; otherwise email = f1, password = f2; an f3 containing '@' is
\* the recovery_email and f4, if present, the secret_key; an f3 without '@'
\* is the secret_key and f4 becomes recovery_email only when email-like.
C8_DocumentedFormats ==
    parsed # NotParsed => parsed = Documented(line.fields, line.prefix)

(***************************************************************************)
(* create_window.py: get_browser_list, get_next_window_name and            *)
(* create_browser_window against the window list the backend keeps.  A     *)
(* window name is a sequence of characters, a remark the fields of the     *)
(* account's full_line.                                                    *)
(***************************************************************************)
\* get_browser_list(page=0, pageSize=50)
DefaultPageSize == 50
\* get_browser_list(page=0, pageSize=100000) of the GeekEZ branch
GeekezCheckPageSize == 100000

MaxCreates == 3

Window(id, name, userName, remark) ==
    [id |-> id, name |-> name, userName |-> userName, remark |-> remark]

\* Python's all[start:end]: a negative index counts from the end, and both
\* ends are clipped to the list
PySlice(all, start, end) ==
    LET n == Len(all)
        Clip(i) == IF i < 0 THEN (IF i + n < 0 THEN 0 ELSE i + n)
                   ELSE IF i > n THEN n ELSE i
    IN SubSeq(all, Clip(start) + 1, Clip(end))

\* the page the backend answers with: profiles[start:end] when pageSize is
\* positive, the whole list otherwise
BrowserList(all, page, pageSize) ==
    IF pageSize > 0
    THEN PySlice(all, page * pageSize, page * pageSize + pageSize)
    ELSE all

\* str(n) for n >= 0
RECURSIVE DigitsOf(_)
DigitsOf(n) ==
    LET d == <<"0", "1", "2", "3", "4", "5", "6", "7", "8", "9">>[(n % 10) + 1]
    IN IF n < 10 THEN <<d>> ELSE Append(DigitsOf(n \div 10), d)

DigitValue(c) == CHOOSE v \in 0..9 : DigitsOf(v) = <<c>>

\* int(suffix) of a run of digits
RECURSIVE IntOf(_)
IntOf(ds) ==
    IF Len(ds) = 1 THEN DigitValue(ds[1])
    ELSE 10 * IntOf(SubSeq(ds, 1, Len(ds) - 1)) + DigitValue(ds[Len(ds)])

\* int(suffix) raises ValueError
NotAnInt(suffix) == suffix = <<>> \/ \E i \in 1..Len(suffix) : suffix[i] \notin Digits

\* the number a window name carries under the prefix, 0 when it carries none
NumberUnder(name, prefix) ==
    LET pattern == Append(prefix, "_")
        suffix == SubSeq(name, Len(pattern) + 1, Len(name))
    IN IF StartsWith(name, pattern) /\ ~NotAnInt(suffix) THEN IntOf(suffix) ELSE 0

MaxNumber(browsers, prefix) ==
    LET nums == {NumberUnder(browsers[i].name, prefix) : i \in 1..Len(browsers)} \cup {0}
    IN CHOOSE n \in nums : \A o \in nums : o <= n

\* get_next_window_name: f"{prefix}_{max_num + 1}" over get_browser_list()
NextWindowName(all, prefix) ==
    Append(prefix, "_") \o DigitsOf(MaxNumber(BrowserList(all, 0, DefaultPageSize), prefix) + 1)

\* the duplicate check of create_browser_window: "email in remark" over
\* pageSize=100000 on GeekEZ, "userName == email" over get_browser_list()
\* on BitBrowser
Owns(be, w, email) ==
    IF be = "geekez" THEN \E i \in 1..Len(w.remark) : w.remark[i] = email
    ELSE w.userName = email

Checked(be, all) ==
    IF be = "geekez" THEN BrowserList(all, 0, GeekezCheckPageSize)
    ELSE BrowserList(all, 0, DefaultPageSize)

AlreadyHasWindow(be, all, email) ==
    \E i \in 1..Len(Checked(be, all)) : Owns(be, Checked(be, all)[i], email)

Prefixes == {<<"p">>, <<"q">>}

NoCreate ==
    [call |-> NotCalled, email |-> "", reference |-> FALSE, owned |-> FALSE,
     id |-> 0, error |-> ""]
NoName == [call |-> NotCalled, prefix |-> <<>>, result |-> <<>>]

\* create_browser_window(account, template_config=..., name_prefix=prefix);
\* the backend accepts the create request or rejects it, and lists the new
\* window first or last
CreateBrowserWindow ==
    /\ winSeq < MaxCreates
    /\ \E email \in Emails, prefix \in Prefixes, template \in BOOLEAN,
          accepted \in BOOLEAN, first \in BOOLEAN :
          LET owned == \E i \in 1..Len(windows) : Owns(backend, windows[i], email)
              full_line == <<email, "pw">>
              w == Window(Len(windows) + 1, NextWindowName(windows, prefix),
                          IF backend = "geekez" THEN "" ELSE email, full_line)
              Return(id, error) ==
                  created' = [call |-> "create_browser_window", email |-> email,
                              reference |-> (backend = "geekez" \/ template),
                              owned |-> owned, id |-> id, error |-> error]
          IN IF backend # "geekez" /\ ~template
             THEN Return(0, "no reference window") /\ UNCHANGED <<windows, winSeq>>
             ELSE IF AlreadyHasWindow(backend, windows, email)
             THEN Return(0, "account already has a window") /\ UNCHANGED <<windows, winSeq>>
             ELSE IF ~accepted
             THEN Return(0, "create request rejected") /\ UNCHANGED <<windows, winSeq>>
             ELSE /\ Return(w.id, "")
                  /\ windows' = IF first THEN <<w>> \o windows ELSE Append(windows, w)
                  /\ winSeq' = winSeq + 1
    /\ named' = NoName
    /\ UNCHANGED backend
    /\ UNCHANGED otherThanWin

GetNextWindowName ==
    /\ \E prefix \in Prefixes :
          named' = [call |-> "get_next_window_name", prefix |-> prefix,
                    result |-> NextWindowName(windows, prefix)]
    /\ created' = NoCreate
    /\ UNCHANGED <<backend, windows, winSeq>>
    /\ UNCHANGED otherThanWin

\* windows the backend holds before the first call: none, one short of a
\* page, a full page; they belong to no account
Preexisting(n) == [i \in 1..n |-> Window(i, <<"q", "_">> \o DigitsOf(i), "", <<>>)]

InitWin ==
    /\ ParkLater
    /\ backend \in {"bitbrowser", "geekez"}
    /\ windows \in {Preexisting(n) : n \in {0, DefaultPageSize - 1, DefaultPageSize}}
    /\ winSeq = 0
    /\ created = NoCreate
    /\ named = NoName
    /\ accounts = {}
    /\ ParkThr /\ ParkCards /\ ParkUps /\ ParkPool /\ ParkCardQ /\ ParkProxy /\ ParkParse

NextWin ==
    \/ CreateBrowserWindow
    \/ GetNextWindowName

SpecWin == InitWin /\ [][NextWin]_vars

\* C9: create_browser_window (given a reference window where the backend
\* needs one) refuses, with no create request sent, when any window of the
\* backend, at whatever position of its list, belongs to the account's
\* email; so after any sequence of sequential calls no email owns two
\* windows.
C9_OneWindowPerEmail ==
    /\ created.call = "create_browser_window" =>
          /\ created.owned => created.id = 0
          /\ (created.owned /\ created.reference) =>
                 created.error = "account already has a window"
    /\ \A email \in Emails :
          Cardinality({i \in 1..Len(windows) : Owns(backend, windows[i], email)}) <= 1

\* C10: get_next_window_name(prefix) returns '<prefix>_<n+1>' where n is the
\* largest integer suffix among all existing windows named
\* '<prefix>_<integer>' (0 when there is none), which is never the name of
\* an existing window.
C10_NextNameIsNew ==
    named.call = "get_next_window_name" =>
       /\ named.result = Append(named.prefix, "_") \o DigitsOf(MaxNumber(windows, named.prefix) + 1)
       /\ \A i \in 1..Len(windows) : windows[i].name # named.result

(***************************************************************************)
(* backend_config.get_backend of the core and of the legacy module, and    *)
(* the dispatch of browser_api.  A string is a sequence of characters.     *)
(***************************************************************************)
UpperCase == <<"A", "B", "C", "D", "E", "F", "G", "H", "I", "J", "K", "L", "M", "N", "O", "P", "Q", "R", "S", "T", "U", "V", "W", "X", "Y", "Z">>
LowerCase == <<"a", "b", "c", "d", "e", "f", "g", "h", "i", "j", "k", "l", "m", "n", "o", "p", "q", "r", "s", "t", "u", "v", "w", "x", "y", "z">>

\* str.lower()
Lower(t) ==
    [i \in 1..Len(t) |->
       IF \E k \in 1..Len(UpperCase) : UpperCase[k] = t[i]
       THEN LowerCase[CHOOSE k \in 1..Len(UpperCase) : UpperCase[k] = t[i]]
       ELSE t[i]]

\* _ALIASES / _BACKEND_ALIASES
Aliases ==
    ("bit" :> "bitbrowser") @@ ("bitbrowser" :> "bitbrowser") @@
    ("bit_browser" :> "bitbrowser") @@ ("geek" :> "geekez") @@ ("geekez" :> "geekez") @@
    ("geekezbrowser" :> "geekez") @@ ("geekez_browser" :> "geekez")

\* a normalisation that lets every non-empty value through
MutNormalizeBackend(value) ==
    LET v == Str(Lower(Strip(value)))
    IN IF v = "" THEN None
       ELSE IF v \in DOMAIN Aliases THEN Aliases[v] ELSE v

\* _normalize_backend
NormalizeBackend(value) ==
    LET v == Str(Lower(Strip(value)))
        a == IF v \in DOMAIN Aliases THEN Aliases[v] ELSE v
    IN IF v = "" THEN None
       ELSE IF a \in {"bitbrowser", "geekez"} THEN a ELSE None

\* values of BROWSER_BACKEND and of the "backend" key
RawBackends ==
    { <<>>, <<" ">>,
      <<" ", "G", "e", "e", "k", "E", "Z", " ">>,
      <<"b", "i", "t">>,
      <<"B", "I", "T", "_", "B", "R", "O", "W", "S", "E", "R">>,
      <<"g", "e", "e", "k", "e", "z", "b", "r", "o", "w", "s", "e", "r">>,
      <<"c", "h", "r", "o", "m", "e">> }

SettingsFile(kind, type, chars) == [kind |-> kind, type |-> type, chars |-> chars]

\* no file; a file that cannot be read or decoded; a JSON null; a JSON list;
\* a JSON object without the key, with "backend": null, with a string
SettingsFiles ==
    { SettingsFile(k, "absent", <<>>) : k \in {"missing", "invalid", "null", "list", "dict"} }
    \cup { SettingsFile("dict", "null", <<>>) }
    \cup { SettingsFile("dict", "string", r) :
              r \in {<<" ", "G", "e", "e", "k", "E", "Z", " ">>, <<"b", "i", "t">>, <<"c", "h", "r", "o", "m", "e">>} }

\* str(data.get("backend", ""))
BackendText(file) ==
    IF file.type = "absent" THEN <<>>
    ELSE IF file.type = "null" THEN <<"N", "o", "n", "e">>
    ELSE file.chars

\* the try block of the core get_backend: None when it falls through
CoreFileBackend(file) ==
    IF file.kind \in {"missing", "invalid", "list"} THEN None
    ELSE IF file.kind = "null" THEN NormalizeBackend(<<>>)
    ELSE NormalizeBackend(BackendText(file))

\* the try block of the legacy get_backend
LegacyFileBackend(file) ==
    IF file.kind = "dict" THEN NormalizeBackend(Strip(BackendText(file))) ELSE None

DefaultBackend == "bitbrowser"

CoreGetBackend(e, file) ==
    IF NormalizeBackend(e) # None THEN NormalizeBackend(e)
    ELSE IF CoreFileBackend(file) # None THEN CoreFileBackend(file)
    ELSE DefaultBackend

\* the legacy get_backend: what it returns, which is also what it caches
LegacyGetBackend(e, c, file) ==
    IF NormalizeBackend(Strip(e)) # None THEN NormalizeBackend(Strip(e))
    ELSE IF c # None THEN c
    ELSE IF LegacyFileBackend(file) # None THEN LegacyFileBackend(file)
    ELSE DefaultBackend

\* legacy is_geekez_backend
LegacyIsGeekez(b) == b \in {"geekez", "geekezbrowser", "geekez_browser", "geek"}

NoGot == [call |-> NotCalled, cached |-> None, result |-> None, api |-> None]

Setenv ==
    /\ \E r \in RawBackends : env' = r
    /\ got' = NoGot
    /\ UNCHANGED <<coreFile, legacyFile, cache>>
    /\ UNCHANGED otherThanBackend

\* the settings files are edited or removed outside the program
EditCoreFile ==
    /\ \E f \in SettingsFiles : coreFile' = f
    /\ got' = NoGot
    /\ UNCHANGED <<env, legacyFile, cache>>
    /\ UNCHANGED otherThanBackend

EditLegacyFile ==
    /\ \E f \in SettingsFiles : legacyFile' = f
    /\ got' = NoGot
    /\ UNCHANGED <<env, coreFile, cache>>
    /\ UNCHANGED otherThanBackend

\* core set_backend: the file is written, or the write fails
CoreSetBackend ==
    /\ \E value \in RawBackends, written \in BOOLEAN :
          LET v == IF NormalizeBackend(value) # None
                   THEN NormalizeBackend(value) ELSE DefaultBackend
              chars == IF v = "geekez" THEN <<"g", "e", "e", "k", "e", "z">> ELSE <<"b", "i", "t", "b", "r", "o", "w", "s", "e", "r">>
          IN coreFile' = IF written THEN SettingsFile("dict", "string", chars) ELSE coreFile
    /\ got' = NoGot
    /\ UNCHANGED <<env, legacyFile, cache>>
    /\ UNCHANGED otherThanBackend

\* legacy set_backend: the cache is set, then the file is written or not
LegacySetBackend ==
    /\ \E value \in RawBackends, written \in BOOLEAN :
          LET v == IF NormalizeBackend(value) # None
                   THEN NormalizeBackend(value) ELSE DefaultBackend
              chars == IF v = "geekez" THEN <<"g", "e", "e", "k", "e", "z">> ELSE <<"b", "i", "t", "b", "r", "o", "w", "s", "e", "r">>
          IN /\ cache' = v
             /\ legacyFile' = IF written THEN SettingsFile("dict", "string", chars)
                              ELSE legacyFile
    /\ got' = NoGot
    /\ UNCHANGED <<env, coreFile>>
    /\ UNCHANGED otherThanBackend

GetBackendCore ==
    /\ got' = [call |-> "core.get_backend", cached |-> None,
               result |-> CoreGetBackend(env, coreFile), api |-> None]
    /\ UNCHANGED <<env, coreFile, legacyFile, cache>>
    /\ UNCHANGED otherThanBackend

GetBackendLegacy ==
    /\ cache' = LegacyGetBackend(env, cache, legacyFile)
    /\ got' = [call |-> "legacy.get_backend", cached |-> cache,
               result |-> LegacyGetBackend(env, cache, legacyFile), api |-> None]
    /\ UNCHANGED <<env, coreFile, legacyFile>>
    /\ UNCHANGED otherThanBackend

\* browser_api.openBrowser: geekez_api or bit_api
OpenBrowserDispatch ==
    /\ cache' = LegacyGetBackend(env, cache, legacyFile)
    /\ got' = [call |-> "browser_api.openBrowser", cached |-> cache,
               result |-> LegacyGetBackend(env, cache, legacyFile),
               api |-> IF LegacyIsGeekez(LegacyGetBackend(env, cache, legacyFile))
                       THEN "geekez_api" ELSE "bit_api"]
    /\ UNCHANGED <<env, coreFile, legacyFile>>
    /\ UNCHANGED otherThanBackend

InitBackend ==
    /\ env \in RawBackends
    /\ coreFile \in SettingsFiles
    /\ legacyFile \in SettingsFiles
    /\ cache = None
    /\ got = NoGot
    /\ ParkOld
    /\ ParkApi
    /\ ParkPage
    /\ ParkAge
    /\ ParkDetect
    /\ ParkAccImport

NextBackend ==
    \/ Setenv
    \/ EditCoreFile
    \/ EditLegacyFile
    \/ CoreSetBackend
    \/ LegacySetBackend
    \/ GetBackendCore
    \/ GetBackendLegacy
    \/ OpenBrowserDispatch

SpecBackend == InitBackend /\ [][NextBackend]_vars

\* the BROWSER_BACKEND values that name a backend, and the backend they name
KnownEnv ==
    (<<" ", "G", "e", "e", "k", "E", "Z", " ">> :> "geekez") @@ (<<"b", "i", "t">> :> "bitbrowser") @@
    (<<"B", "I", "T", "_", "B", "R", "O", "W", "S", "E", "R">> :> "bitbrowser") @@ (<<"g", "e", "e", "k", "e", "z", "b", "r", "o", "w", "s", "e", "r">> :> "geekez") @@
    (<<"g", "e", "e", "k", "e", "z">> :> "geekez") @@ (<<"b", "i", "t", "b", "r", "o", "w", "s", "e", "r">> :> "bitbrowser")

\* the settings file names a backend
FileNames(file) ==
    file.kind = "dict" /\ file.type = "string" /\ file.chars \in DOMAIN KnownEnv

\* C11: get_backend of the core and of the legacy module returns only
\* 'bitbrowser' or 'geekez', whatever BROWSER_BACKEND, the settings file and
\* the cache hold; a BROWSER_BACKEND value that names a backend wins over
\* the file and the cache; any other value falls through, and when neither
\* the cache nor the file names a backend the result is 'bitbrowser'.
\* browser_api dispatches to geekez_api exactly when the result is 'geekez'.
C11_SupportedBackend ==
    got.call # NotCalled =>
       /\ got.result \in {"bitbrowser", "geekez"}
       /\ env \in DOMAIN KnownEnv => got.result = KnownEnv[env]
       /\ (/\ env \notin DOMAIN KnownEnv
           /\ got.cached = None
           /\ ~FileNames(IF got.call = "core.get_backend" THEN coreFile ELSE legacyFile))
          => got.result = "bitbrowser"
       /\ got.call = "browser_api.openBrowser" =>
             (got.api = "geekez_api" <=> got.result = "geekez")

\* the legacy module is asked while BROWSER_BACKEND names geekez in capitals
\* and with blanks, and both the cache and the file say bitbrowser
C11_Witness ==
    /\ got.call = "legacy.get_backend"
    /\ env = <<" ", "G", "e", "e", "k", "E", "Z", " ">>
    /\ got.cached = "bitbrowser"
    /\ legacyFile = SettingsFile("dict", "string", <<"b", "i", "t">>)
    /\ got.result = "geekez"


\* ---------------------------------------------------------------------
\* GeekEZ HTTP wrappers: core/geekez_api.py (GeekezAPI) and geekez_api.py
\* ---------------------------------------------------------------------

\* A JSON object as far as the wrappers look at it:
\*   success : "absent", "False", "falsy" (0, None, ''), "True", "truthy" (1, 'yes')
\*   data    : "absent", "None", "[]", "dict", "list", "str" (the last two not empty)
\*   keys    : the keys of data when it is a dict
\*   texts   : which of 'msg', 'error', 'message' are present and not empty
Dict(success, data, keys, texts) ==
    [success |-> success, data |-> data, keys |-> keys, texts |-> texts]

\* what requests.<verb>(...).json() meets: the request raises, the body is
\* not JSON, or the body is a JSON value
BodyKinds == {"raise", "notjson", "null", "list", "str", "dict"}

SuccessValues == {"absent", "False", "falsy", "True", "truthy"}

DataValues == {"absent", "None", "[]", "dict", "list", "str"}

DataKeys == {"ws", "http", "pid"}

TextKeys == {"msg", "error", "message"}

Bodies ==
    {[kind |-> k] @@ Dict("absent", "absent", {}, {}) :
        k \in BodyKinds \ {"dict"}}
    \cup {[kind |-> "dict"] @@ Dict(sc, d, ks, ts) :
            sc \in SuccessValues, d \in DataValues \ {"dict"},
            ks \in {{}}, ts \in SUBSET TextKeys}
    \cup {[kind |-> "dict"] @@ Dict(sc, "dict", ks, ts) :
            sc \in SuccessValues, ks \in SUBSET DataKeys, ts \in SUBSET TextKeys}

\* requests raised or .json() raised: the except clause of the wrapper
Raises(b) == b.kind \in {"raise", "notjson"}

\* bool(x) of a success value
SuccessTruthy(sc) == sc \in {"True", "truthy"}

\* a call that returned d
Returned(d) == [exc |-> None] @@ d

\* a call that let an exception out
Propagated(e) == [exc |-> e] @@ Dict("absent", "absent", {}, {})

\* {'success': False, '<key>': str(e)}
Failure(key) == Dict("False", "absent", {}, {key})

\* GeekezAPI._normalize_result
NormalizeResult(b) ==
    IF b.kind # "dict" THEN Failure("msg")
    ELSE IF b.success = "False" /\ "msg" \notin b.texts
         THEN IF "error" \in b.texts \/ "message" \in b.texts
              THEN Dict(b.success, b.data, b.keys, b.texts \cup {"msg"})
              ELSE Dict(b.success, b.data, b.keys, b.texts)
         ELSE Dict(b.success, b.data, b.keys, b.texts)

\* GeekezAPI._get, _post, _patch, _delete: one try block around the request,
\* the decoding and _normalize_result
CoreRequest(b) ==
    IF Raises(b) THEN Failure("msg") ELSE NormalizeResult(b)

\* res.get("data") or {}
DataOrEmpty(d) == IF d.data \in {"absent", "None", "[]"} THEN "dict" ELSE d.data

\* {"ws": data.get("ws"), "http": data.get("http"), **data}
WithWsHttp(d) ==
    Dict("True", "dict", d.keys \cup {"ws", "http"}, {})

\* GeekezAPI.open_browser
CoreOpenBrowser(b) ==
    LET res == CoreRequest(b) IN
    IF ~SuccessTruthy(res.success) THEN Returned(res)
    ELSE IF DataOrEmpty(res) = "dict" THEN Returned(WithWsHttp(res))
    ELSE Returned(Dict("True", res.data, {}, {}))

\* geekez_api.openBrowser: only the request and .json() are inside the try
LegacyOpenBrowser(b) ==
    IF Raises(b) THEN Returned(Failure("error"))
    ELSE IF b.kind # "dict" THEN Propagated("AttributeError")
    ELSE IF b.success = "True"
         THEN IF DataOrEmpty(b) = "dict" THEN Returned(WithWsHttp(b))
              ELSE Propagated("AttributeError")
         ELSE Returned(Dict(b.success, b.data, b.keys, b.texts))

\* geekez_api.closeBrowser and deleteBrowser: the whole body is inside the try
LegacyCloseBrowser(b) ==
    IF Raises(b) \/ b.kind # "dict" THEN Returned(Failure("error"))
    ELSE IF b.success = "True"
         THEN Returned(Dict("True", IF b.data = "absent" THEN "None" ELSE b.data,
                            b.keys, {}))
         ELSE Returned(Dict(b.success, b.data, b.keys, b.texts))

\* the functions keep no state between calls, so a behaviour is one call
ApiCall(name, b, out) ==
    /\ api.call = NotCalled
    /\ api' = [call |-> name, body |-> b, out |-> out]
    /\ UNCHANGED otherThanApi

Get ==
    /\ \E b \in Bodies : ApiCall("_get", b, Returned(CoreRequest(b)))

Post ==
    /\ \E b \in Bodies : ApiCall("_post", b, Returned(CoreRequest(b)))

Patch ==
    /\ \E b \in Bodies : ApiCall("_patch", b, Returned(CoreRequest(b)))

Delete ==
    /\ \E b \in Bodies : ApiCall("_delete", b, Returned(CoreRequest(b)))

OpenBrowserCore ==
    /\ \E b \in Bodies : ApiCall("open_browser", b, CoreOpenBrowser(b))

OpenBrowserLegacy ==
    /\ \E b \in Bodies : ApiCall("openBrowser", b, LegacyOpenBrowser(b))

CloseBrowserLegacy ==
    /\ \E b \in Bodies : ApiCall("closeBrowser", b, LegacyCloseBrowser(b))

DeleteBrowserLegacy ==
    /\ \E b \in Bodies : ApiCall("deleteBrowser", b, LegacyCloseBrowser(b))

InitApi ==
    /\ ParkOld
    /\ ParkCfg
    /\ ParkApi
    /\ ParkPage
    /\ ParkAge
    /\ ParkDetect
    /\ ParkAccImport

NextApi ==
    \/ Get
    \/ Post
    \/ Patch
    \/ Delete
    \/ OpenBrowserCore
    \/ OpenBrowserLegacy
    \/ CloseBrowserLegacy
    \/ DeleteBrowserLegacy

SpecApi == InitApi /\ [][NextApi]_vars

CoreWrappers == {"_get", "_post", "_patch", "_delete"}

LegacyCalls == {"openBrowser", "closeBrowser", "deleteBrowser"}

\* C12: no wrapper lets an exception out: when the request or the decoding
\* fails, _get/_post/_patch/_delete return {'success': False, 'msg': text},
\* a body that is not a dict becomes a success=False result, and the legacy
\* openBrowser/closeBrowser/deleteBrowser return {'success': False,
\* 'error': text}; a successful open has a dict data holding 'ws' and 'http'.
C12_NoExceptionOut ==
    api.call # NotCalled =>
       /\ api.out.exc = None
       /\ (api.call \in CoreWrappers /\ Raises(api.body))
             => api.out = Returned(Failure("msg"))
       /\ (api.call \in CoreWrappers /\ api.body.kind # "dict")
             => api.out.success = "False"
       /\ (api.call \in LegacyCalls /\ Raises(api.body))
             => api.out = Returned(Failure("error"))
       /\ (api.call \in {"open_browser", "openBrowser"} /\ api.out.success = "True")
             => api.out.data = "dict" /\ {"ws", "http"} \subseteq api.out.keys


\* ---------------------------------------------------------------------
\* GeekEZ paging: GeekezAPI.list_browsers and get_browser_list
\* ---------------------------------------------------------------------

MaxProfiles == 3
MaxPage == 3
MaxPageSize == 2

\* a remark is held as its parts between '----'; <<>> is a profile without
\* the key. Which of the sample parts hold an '@'
HasAt(part) == part \in {"e@x.co", "r@x.co"}

\* len >= 16 and only base32 letters
LooksLikeTotpSecret(part) == part \in {"JBSWY3DPEHPK3PXP"}

\* GeekezAPI._normalize_remark
NormalizeRemark(parts) ==
    IF Len(parts) # 3 THEN parts
    ELSE IF HasAt(parts[3]) /\ ~LooksLikeTotpSecret(parts[3]) THEN parts
    ELSE <<parts[1], parts[2], "", parts[3]>>

\* a profile: seq is <<>> when the key is missing
Profile(id, seq, remark) == [id |-> id, seq |-> seq, remark |-> remark]

\* what a profile of the list may hold besides its id
ProfileSamples ==
    {<<<<>>, <<>>>>,
     <<<<9>>, <<"e@x.co", "pw", "JBSWY3DPEHPK3PXP">>>>,
     <<<<>>, <<"e@x.co", "pw", "r@x.co">>>>}

ProfileLists ==
    UNION {{[i \in 1..n |-> Profile(i, f[i][1], f[i][2])] : f \in [1..n -> ProfileSamples]} :
           n \in 0..MaxProfiles}

\* the loop of list_browsers over the items: seq filled in, remark normalised
NormalizeItems(items) ==
    [i \in 1..Len(items) |->
        Profile(items[i].id,
                IF items[i].seq = <<>> THEN <<i>> ELSE items[i].seq,
                NormalizeRemark(items[i].remark))]

AtLeast(n, least) == IF n < least THEN least ELSE n

MutListBrowsersPage(items, page, page_size) ==
    LET start == AtLeast(page, 0) * AtLeast(page_size, 1)
        end == start + AtLeast(page_size, 1) + 1
    IN PySlice(NormalizeItems(items), start, end)

\* data.list of list_browsers
ListBrowsersPage(items, page, page_size) ==
    LET start == AtLeast(page, 0) * AtLeast(page_size, 1)
        end == start + AtLeast(page_size, 1)
    IN PySlice(NormalizeItems(items), start, end)

Pages == (0 - 1)..MaxPage

PageSizes == 0..MaxPageSize

NoPaged ==
    [call |-> NotCalled, page |-> 0, size |-> 0, reachable |-> TRUE,
     success |-> FALSE, list |-> <<>>, total |-> <<>>]

\* GeekezAPI.list_browsers; an unreachable server gives _get's failure
ListBrowsers ==
    /\ \E k \in Pages, sz \in PageSizes, up \in BOOLEAN :
          paged' = [call |-> "list_browsers", page |-> k, size |-> sz, reachable |-> up,
                    success |-> up,
                    list |-> IF up THEN ListBrowsersPage(profiles, k, sz) ELSE <<>>,
                    total |-> IF up THEN <<Len(profiles)>> ELSE <<>>]
    /\ UNCHANGED profiles
    /\ UNCHANGED otherThanPage

\* get_browser_list on the GeekEZ backend; an unreachable server gives []
GetBrowserList ==
    /\ \E k \in Pages, sz \in PageSizes, up \in BOOLEAN :
          paged' = [call |-> "get_browser_list", page |-> k, size |-> sz, reachable |-> up,
                    success |-> up,
                    list |-> IF up THEN BrowserList(profiles, k, sz) ELSE <<>>,
                    total |-> <<>>]
    /\ UNCHANGED profiles
    /\ UNCHANGED otherThanPage

InitPage ==
    /\ ParkOld
    /\ ParkCfg
    /\ ParkApi
    /\ ParkAge
    /\ ParkDetect
    /\ ParkAccImport
    /\ profiles \in ProfileLists
    /\ paged = NoPaged

NextPage ==
    \/ ListBrowsers
    \/ GetBrowserList

SpecPage == InitPage /\ [][NextPage]_vars

\* the profile list as the caller of list_browsers holds it, as it comes for
\* get_browser_list
ListOf(call, all) ==
    IF call = "list_browsers" THEN NormalizeItems(all) ELSE all

RECURSIVE PagesUpTo(_, _, _, _)
\* the pages 0..k of a call put one after the other
PagesUpTo(call, all, k, sz) ==
    LET pg == IF call = "list_browsers" THEN ListBrowsersPage(all, k, sz)
              ELSE BrowserList(all, k, sz)
    IN IF k = 0 THEN pg ELSE PagesUpTo(call, all, k - 1, sz) \o pg

\* pages 0, 1, 2, ... give every profile once and in order, and the first
\* page past the end is empty
Partition(call, all) ==
    \A sz \in 1..MaxPageSize :
       LET last == (Len(all) + sz - 1) \div sz
       IN /\ PagesUpTo(call, all, last, sz) = ListOf(call, all)
          /\ \A k \in 0..last :
                (k * sz >= Len(all)) =>
                   IF call = "list_browsers" THEN ListBrowsersPage(all, k, sz) = <<>>
                   ELSE BrowserList(all, k, sz) = <<>>

\* C13 as stated: for page_size >= 1 and every page k, both calls return
\* L[k*s : (k+1)*s], list_browsers with total = len(L).
C13_PagesAsStated ==
    (paged.call # NotCalled /\ paged.reachable /\ paged.size >= 1) =>
       /\ paged.list = PySlice(ListOf(paged.call, profiles), paged.page * paged.size,
                               (paged.page + 1) * paged.size)
       /\ paged.call = "list_browsers" => paged.total = <<Len(profiles)>>

\* C13: for page_size >= 1 and a page k >= 0, list_browsers and
\* get_browser_list on GeekEZ return L[k*s : (k+1)*s], list_browsers with
\* total = len(L); pages 0, 1, 2, ... give every profile exactly once and in
\* order and the first page past the end is empty. A negative page is page 0
\* for list_browsers and the Python slice L[k*s : (k+1)*s] for
\* get_browser_list.
C13_GeekezPaging ==
    /\ (paged.call # NotCalled /\ paged.reachable /\ paged.size >= 1) =>
          /\ paged.page >= 0 =>
                paged.list = PySlice(ListOf(paged.call, profiles),
                                     paged.page * paged.size,
                                     (paged.page + 1) * paged.size)
          /\ (paged.page < 0 /\ paged.call = "list_browsers") =>
                paged.list = PySlice(ListOf(paged.call, profiles), 0, paged.size)
          /\ (paged.page < 0 /\ paged.call = "get_browser_list") =>
                paged.list = PySlice(profiles, paged.page * paged.size,
                                     (paged.page + 1) * paged.size)
          /\ paged.call = "list_browsers" => paged.total = <<Len(profiles)>>
    /\ Partition("list_browsers", profiles)
    /\ Partition("get_browser_list", profiles)

\* the second page of two out of three profiles: the third profile alone,
\* its seq filled in
C13_Witness ==
    /\ paged.call = "list_browsers"
    /\ paged.reachable
    /\ Len(profiles) = 3
    /\ paged.page = 1
    /\ paged.size = 2
    /\ profiles[3].seq = <<>>
    /\ paged.list = <<Profile(3, <<3>>, NormalizeRemark(profiles[3].remark))>>
    /\ paged.total = <<3>>

\* a negative page given to list_browsers comes back as the first page
C13_WitnessNegative ==
    /\ paged.call = "list_browsers"
    /\ paged.reachable
    /\ paged.page < 0
    /\ paged.size = 2
    /\ Len(profiles) = 3
    /\ Len(paged.list) = 2

\* ---------------------------------------------------------------------
\* age_verification_service.py: process_age_verification
\* ---------------------------------------------------------------------

\* card_info as the caller passes it: None, something that is not a dict, or
\* a dict; id is <<>> when the key is missing, flag is what the dict holds
\* under '__age_verify_used_card'
CardInfo(kind, id, flag) == [kind |-> kind, id |-> id, flag |-> flag]

CardInfos ==
    {CardInfo("None", <<>>, "absent"), CardInfo("str", <<>>, "absent")}
    \cup {CardInfo("dict", id, flag) :
            id \in {<<>>} \cup {<<i>> : i \in 1..MaxCardId},
            flag \in {"absent", "True", "False"}}

\* what the browser and the pages do during one run:
\*   import   : the imports of the function succeed
\*   open     : open_browser(...)['success']
\*   connect  : connect_over_cdp does not raise
\*   login    : account_info was found and ensure_google_login's answer
\*   goto     : page.goto does not raise
\*   verified : the body holds a verified phrase
\*   qr       : _goto_face_verify_qr's ok
Run(import, open, connect, login, goto, verified, qr) ==
    [import |-> import, open |-> open, connect |-> connect, login |-> login,
     goto |-> goto, verified |-> verified, qr |-> qr]

\* one run for each place the function can leave at; what comes after that
\* place is not looked at
Runs ==
    {Run(FALSE, TRUE, TRUE, "ok", TRUE, FALSE, TRUE),
     Run(TRUE, FALSE, TRUE, "ok", TRUE, FALSE, TRUE),
     Run(TRUE, TRUE, FALSE, "ok", TRUE, FALSE, TRUE),
     Run(TRUE, TRUE, TRUE, "fail", TRUE, FALSE, TRUE),
     Run(TRUE, TRUE, TRUE, "ok", FALSE, FALSE, TRUE),
     Run(TRUE, TRUE, TRUE, "ok", TRUE, TRUE, FALSE),
     Run(TRUE, TRUE, TRUE, "no account", TRUE, FALSE, TRUE),
     Run(TRUE, TRUE, TRUE, "ok", TRUE, FALSE, TRUE),
     Run(TRUE, TRUE, TRUE, "ok", TRUE, FALSE, FALSE)}

\* if card_info is None or not isinstance(card_info, dict): card_info = {}
AsDict(ci) == IF ci.kind = "dict" THEN ci ELSE CardInfo("dict", <<>>, "absent")

\* card_info["__age_verify_used_card"] = False
ClearFlag(ci) == [ci EXCEPT !.flag = "False"]

\* auto_age_verification: (ok, outcome, card_info afterwards)
AutoAgeVerification(ci, run) ==
    IF ~run.goto THEN <<FALSE, "navigation failed", ci>>
    ELSE IF run.verified THEN <<TRUE, "already verified", ClearFlag(ci)>>
    ELSE <<run.qr, IF run.qr THEN "qr reached" ELSE "qr not reached", ClearFlag(ci)>>

MutUsedCard(ci) == TRUE

\* bool(card_info.get("__age_verify_used_card", True))
UsedCard(ci) == IF ci.flag = "absent" THEN TRUE ELSE ci.flag = "True"

\* process_age_verification up to its return: (ok, outcome, the card whose
\* usage is updated or <<>>, used_card)
AgeRun(card_info, run) ==
    LET ci == ClearFlag(AsDict(card_info))
        auto == AutoAgeVerification(ci, run)
    IN IF ~run.import THEN <<FALSE, "import failed", <<>>, FALSE>>
       ELSE IF ~run.open THEN <<FALSE, "open failed", <<>>, FALSE>>
       ELSE IF ~run.connect THEN <<FALSE, "exception", <<>>, FALSE>>
       ELSE IF run.login = "fail" THEN <<FALSE, "login failed", <<>>, FALSE>>
       ELSE <<auto[1], auto[2],
              IF auto[1] /\ ci.id # <<>> /\ UsedCard(auto[3]) THEN ci.id ELSE <<>>,
              UsedCard(auto[3])>>

\* update_card_usage swallows what increment_card_usage raises; one call is
\* followed in each behaviour
ProcessAgeVerification ==
    /\ age.call = NotCalled
    /\ \E card_info \in CardInfos, run \in Runs :
          LET r == AgeRun(card_info, run)
              o == IF r[3] = <<>> THEN Outcome(cards, cardSeq, leaked, None)
                   ELSE WriteOutcome(cards, cardSeq, leaked, FALSE,
                                     SqlIncrementUsage(cards, r[3][1]), cardSeq)
          IN /\ age' = [call |-> "process_age_verification", card_info |-> card_info,
                        outcome |-> r[2], ok |-> r[1], used_card |-> r[4],
                        before |-> cards, after |-> o.cards]
             /\ cards' = o.cards
             /\ cardSeq' = o.seq
             /\ leaked' = o.leaked
    /\ UNCHANGED otherThanAge

InitAge == InitCards

NextAge ==
    \/ ProcessAgeVerification
    \/ AddCard
    \/ CollectCards

SpecAge == InitAge /\ [][NextAge]_vars

MaxTimeout == 2
MaxStep == 2

\* what one look at a group of phrases finds: one of them visible, none, or
\* the locator raising (which the loop passes over)
Looks == {"visible", "hidden", "raises"}

\* the a[href*="sheerid.com"] element in one round:
\*   state : "none" (count() = 0), "raises" (count() or get_attribute raises)
\*           or "present"
\*   text  : what its inner_text translates to, lowered: "" when blank or
\*           when inner_text raises
\*   translator : the translation does not raise
Link(state, text, translator) ==
    [state |-> state, text |-> text, translator |-> translator]

Links ==
    {Link("none", "", TRUE), Link("raises", "", TRUE), Link("present", "", TRUE)}
    \cup {Link("present", t, tr) :
            t \in {"get student offer", "get offer now", "verify"}, tr \in BOOLEAN}

\* the page as one round of the loop meets it
PageViews ==
    [subscribed : Looks, verified : Looks, unavailable : Looks, noteligible : Looks,
     link : Links]

NoView ==
    [subscribed |-> "hidden", verified |-> "hidden", unavailable |-> "hidden",
     noteligible |-> "hidden", link |-> Link("none", "", TRUE)]

\* "student offer" in translated_text or "get offer" in translated_text
MentionsOffer(text) == text \in {"get student offer", "get offer now"}

NoMatch == "<no match>"

Href == "https://services.sheerid.com/verify/abc"

\* the status a MutRound gives: the link is looked at before the phrases
MutDecide(view) ==
    IF view.link.state = "present"
    THEN IF view.link.text # "" /\ view.link.translator /\ MentionsOffer(view.link.text)
         THEN <<"verified", None>>
         ELSE <<"link_ready", Href>>
    ELSE IF view.subscribed = "visible" THEN <<"subscribed", None>>
    ELSE IF view.verified = "visible" THEN <<"verified", None>>
    ELSE IF view.unavailable = "visible" \/ view.noteligible = "visible"
         THEN <<"ineligible", None>>
    ELSE <<NoMatch, None>>

\* one pass through the body of the while loop: (status, link), or NoMatch
\* when the pass reaches wait_for_timeout
Decide(view) ==
    IF view.subscribed = "visible" THEN <<"subscribed", None>>
    ELSE IF view.verified = "visible" THEN <<"verified", None>>
    ELSE IF view.unavailable = "visible" \/ view.noteligible = "visible"
         THEN <<"ineligible", None>>
    ELSE IF view.link.state = "present"
         THEN IF view.link.text # "" /\ view.link.translator /\ MentionsOffer(view.link.text)
              THEN <<"verified", None>>
              ELSE <<"link_ready", Href>>
    ELSE <<NoMatch, None>>

\* the while test holds: time.time() - start < timeout_seconds
BeforeDeadline == clock < timeoutSeconds

\* the checks of one round; a round that matches nothing goes on to
\* wait_for_timeout
Poll ==
    /\ det.pc = "loop"
    /\ BeforeDeadline
    /\ \E view \in PageViews :
          LET r == Decide(view)
          IN det' = [pc |-> IF r[1] = NoMatch THEN "wait" ELSE "returned",
                     status |-> r[1], link |-> r[2],
                     view |-> IF r[1] = NoMatch THEN NoView ELSE view,
                     rounds |-> IF det.rounds < 2 THEN det.rounds + 1 ELSE det.rounds,
                     missed |-> det.missed /\ r[1] = NoMatch,
                     at |-> clock]
    /\ UNCHANGED <<clock, timeoutSeconds>>
    /\ UNCHANGED otherThanDetect

\* page.wait_for_timeout(1000) returns: at least one unit of time has passed
Wait ==
    /\ det.pc = "wait"
    /\ \E d \in 1..MaxStep : clock' = clock + d
    /\ det' = [det EXCEPT !.pc = "loop"]
    /\ UNCHANGED timeoutSeconds
    /\ UNCHANGED otherThanDetect

\* page.wait_for_timeout(1000) raises at once and the loop goes round
\* without the clock reaching the next unit
WaitRaises ==
    /\ det.pc = "wait"
    /\ det' = [det EXCEPT !.pc = "loop"]
    /\ UNCHANGED <<clock, timeoutSeconds>>
    /\ UNCHANGED otherThanDetect

\* a unit of time goes by while the loop runs its checks
Tick ==
    /\ det.pc = "loop"
    /\ BeforeDeadline
    /\ clock' = clock + 1
    /\ UNCHANGED <<det, timeoutSeconds>>
    /\ UNCHANGED otherThanDetect

\* the while test fails: return "timeout", None
Expire ==
    /\ det.pc = "loop"
    /\ ~BeforeDeadline
    /\ det' = [det EXCEPT !.pc = "returned", !.status = "timeout", !.link = None, !.at = clock]
    /\ UNCHANGED <<clock, timeoutSeconds>>
    /\ UNCHANGED otherThanDetect

NoDet ==
    [pc |-> "loop", status |-> NoMatch, link |-> None, view |-> NoView, rounds |-> 0,
     missed |-> TRUE, at |-> 0]

InitDetect ==
    /\ ParkOld
    /\ ParkCfg
    /\ ParkApi
    /\ ParkPage
    /\ ParkAge
    /\ ParkAccImport
    /\ clock = 0
    /\ timeoutSeconds \in 0..MaxTimeout
    /\ det = NoDet

NextDetect ==
    \/ Poll
    \/ Wait
    \/ WaitRaises
    \/ Tick
    \/ Expire

\* every await returns or raises, and time moves on while the loop runs
SpecDetect ==
    /\ InitDetect
    /\ [][NextDetect]_vars
    /\ WF_vars(Poll)
    /\ WF_vars(Wait \/ WaitRaises)
    /\ WF_vars(Expire)
    /\ SF_vars(Tick)

Statuses == {"subscribed", "verified", "ineligible", "link_ready", "timeout"}

\* what the function has returned is what the order of the checks gives for
\* the page of its last round
DetectSafe ==
    det.pc = "returned" =>
       /\ det.status \in Statuses
       /\ det.link # None => det.status = "link_ready"
       /\ det.status = "timeout" <=> (det.missed /\ det.at >= timeoutSeconds)
       /\ det.status # "timeout" =>
             /\ det.rounds >= 1
             /\ det.at < timeoutSeconds
             /\ det.view.subscribed = "visible" => det.status = "subscribed"
             /\ (det.view.subscribed # "visible" /\ det.view.verified = "visible")
                   => det.status = "verified"
             /\ (/\ det.view.subscribed # "visible"
                 /\ det.view.verified # "visible"
                 /\ (det.view.unavailable = "visible" \/ det.view.noteligible = "visible"))
                   => det.status = "ineligible"
             /\ det.status = "link_ready" =>
                   /\ det.view.link.state = "present"
                   /\ det.link = Href
             /\ (/\ det.status = "verified"
                 /\ det.view.verified # "visible")
                   => det.view.link.state = "present" /\ MentionsOffer(det.view.link.text)

\* a round that matched nothing leaves the loop running
DetectLoops ==
    det.pc \in {"loop", "wait"} => det.missed /\ det.status = NoMatch

\* C15: detect_google_one_status_dom returns one of 'subscribed', 'verified',
\* 'ineligible', 'link_ready', 'timeout'; each round decides subscribed, then
\* verified, then ineligible, then the SheerID link (a link only with
\* link_ready; verified without link when the link's text mentions the
\* offer); the first round with a match ends the loop; 'timeout' only when
\* no round matched before the deadline; and once the timeout has elapsed
\* the loop ends.
C15_DetectStatus ==
    /\ [](DetectSafe /\ DetectLoops)
    /\ (clock >= timeoutSeconds) ~> (det.pc = "returned")
    /\ <>(det.pc = "returned")

\* a second round, begun before the deadline, finds the link after the first
\* found nothing, although the page also shows the link text in no language
\* the translator knows
C15_Witness ==
    /\ det.pc = "returned"
    /\ det.status = "link_ready"
    /\ det.rounds = 2
    /\ det.view.subscribed = "raises"
    /\ det.view.link = Link("present", "get student offer", FALSE)
    /\ det.link = Href

\* the deadline passes with no match
C15_WitnessTimeout ==
    /\ det.pc = "returned"
    /\ det.status = "timeout"
    /\ det.rounds = 2
    /\ timeoutSeconds = 2

\* ---------------------------------------------------------------------
\* database.py: import_accounts_from_text
\* ---------------------------------------------------------------------

MaxAccountLines == 2

\* the classes of the pattern the text is split on:
\* [a-zA-Z0-9._%+-]+@[a-zA-Z0-9.-]+\.[a-zA-Z]{2,}
LetterChar(c) ==
    \E k \in 1..Len(LowerCase) : c = LowerCase[k] \/ c = UpperCase[k]

LocalChar(c) == LetterChar(c) \/ c \in Digits \/ c \in {".", "_", "%", "+", "-"}

DomainChar(c) == LetterChar(c) \/ c \in Digits \/ c \in {".", "-"}

\* the lookahead of the pattern holds where s begins
EmailAhead(s) ==
    \E at \in 2..Len(s) :
       /\ s[at] = "@"
       /\ \A k \in 1..(at - 1) : LocalChar(s[k])
       /\ \E dot \in (at + 2)..(Len(s) - 2) :
             /\ \A k \in (at + 1)..(dot - 1) : DomainChar(s[k])
             /\ s[dot] = "."
             /\ LetterChar(s[dot + 1]) /\ LetterChar(s[dot + 2])

\* the ends of the runs of blanks the pattern matches
Cuts(l) ==
    {j \in 1..(Len(l) - 1) :
        l[j] = " " /\ l[j + 1] # " " /\ EmailAhead(SubSeq(l, j + 1, Len(l)))}

RECURSIVE Pieces(_, _)
\* [p.strip() for p in re.split(pattern, raw_line)]
Pieces(l, from) ==
    LET ahead == {j \in Cuts(l) : j >= from}
    IN IF ahead = {} THEN <<Strip(SubSeq(l, from, Len(l)))>>
       ELSE LET j == CHOOSE x \in ahead : \A y \in ahead : x <= y
            IN <<Strip(SubSeq(l, from, j))>> \o Pieces(l, j + 1)

RECURSIVE AccountLines(_)
\* the list `lines`: the raw lines that are not blank, each split where a
\* blank is followed by an e-mail address, without the blank pieces
AccountLines(raw_lines) ==
    IF raw_lines = <<>> THEN <<>>
    ELSE LET raw_line == Strip(Head(raw_lines))
         IN (IF raw_line = <<>> THEN <<>>
             ELSE SelectSeq(Pieces(raw_line, 1), LAMBDA p : p # <<>>))
            \o AccountLines(Tail(raw_lines))

\* upsert_account as import_accounts_from_text calls it, on a database whose
\* leaked connections are lk: the table, the connections, and whether the
\* write statement failed. The exception is caught inside upsert_account.
UpsertOutcome(rows, lk, email, a, now) ==
    IF ~Truthy(email) THEN [accounts |-> rows, leaked |-> lk, failed |-> FALSE]
    ELSE IF SelectByEmail(rows, email) # {} /\ ~HasFields(a)
         THEN [accounts |-> rows, leaked |-> lk, failed |-> FALSE]
    ELSE IF HoldsWrite(lk)
         THEN [accounts |-> rows, leaked |-> Append(lk, FALSE), failed |-> TRUE]
    ELSE [accounts |-> UpsertAccount(rows, email, a, now), leaked |-> lk, failed |-> FALSE]

AccountImportState(rows, lk, counted, failed, errors) ==
    [accounts |-> rows, leaked |-> lk, counted |-> counted, failed |-> failed,
     errors |-> errors]

\* success_count += 1 after upsert_account returned with outcome o
AccountImportCounted(st, o, line_num, email) ==
    AccountImportState(o.accounts, o.leaked, Append(st.counted, <<line_num, email>>),
                       IF o.failed THEN st.failed \cup {line_num} ELSE st.failed,
                       st.errors)

\* the body of the for loop for the stripped line l that parses to account,
\* on a database whose leaked connections are lk
AccountImportParsed(st, l, account, lk, line_num, default_status, now) ==
    IF l = <<>> \/ StartsWith(l, <<"#">>) \/ StartsWith(l, <<"sep=">>) THEN st
    ELSE IF account.ok /\ Truthy(account.email)
         THEN AccountImportCounted(st,
                 UpsertOutcome(st.accounts, lk, account.email,
                               Args(account.password, account.recovery_email,
                                    account.secret_key, account.verification_link,
                                    None, default_status, None), now),
                 line_num, account.email)
    ELSE AccountImportState(st.accounts, st.leaked, st.counted, st.failed,
                            Append(st.errors, <<line_num, "cannot parse">>))

\* the body of the for loop for one line; gcs are the lines before which the
\* garbage collector runs
AccountImportLine(st, l0, line_num, gcs, default_status, now) ==
    AccountImportParsed(st, Strip(l0), ParseAccountLine(Strip(l0)),
                        IF line_num \in gcs THEN <<>> ELSE st.leaked,
                        line_num, default_status, now)

RECURSIVE AccountImportLoop(_, _, _, _, _, _)
AccountImportLoop(st, ls, line_num, gcs, default_status, now) ==
    IF line_num > Len(ls) THEN st
    ELSE AccountImportLoop(AccountImportLine(st, ls[line_num], line_num, gcs,
                                             default_status, now),
                           ls, line_num + 1, gcs, default_status, now)

FEmail2 == <<"c", "@", "d", ".", "e", "e">>

\* raw lines of the text; "sep=" stands for the prefix '分隔符='
AccountTexts ==
    { FEmail \o Dashes \o FPassword,
      FEmail \o Dashes \o FPassword \o <<" ">> \o FEmail2 \o Dashes \o FKey,
      <<"#", " ", "c">>,
      Dashes }

NoAccountImport ==
    [call |-> NotCalled, text |-> <<>>, lines |-> <<>>, counted |-> <<>>, failed |-> {},
     success_count |-> 0, error_count |-> 0, errors |-> <<>>]

ImportAccountsFromText ==
    /\ aimp.call = NotCalled
    /\ Len(leaked) < MaxLeaks
    /\ \E text \in UNION {[1..n -> AccountTexts] : n \in 1..MaxAccountLines} :
       \E ls \in {AccountLines(text)} :
       \E gcs \in SUBSET (1..Len(ls)) :
       \E st \in {AccountImportLoop(AccountImportState(accounts, leaked, <<>>, {}, <<>>),
                                    ls, 1, gcs, "pending_check", 1)} :
          /\ Len(st.leaked) <= MaxLeaks
          /\ accounts' = st.accounts
          /\ leaked' = st.leaked
          /\ aimp' = [call |-> "import_accounts_from_text", text |-> text, lines |-> ls,
                      counted |-> st.counted, failed |-> st.failed,
                      success_count |-> Len(st.counted),
                      error_count |-> Len(st.errors), errors |-> st.errors]
    /\ UNCHANGED <<cards, cardSeq>>
    /\ UNCHANGED otherThanAccImport

\* the accounts table holds nothing or an older row of the first address
InitAccImport ==
    /\ ParkLater
    /\ ParkCards
    /\ ParkCardQ
    /\ accounts \in {{}, {AccountRow(Str(FEmail), "old", None, None, None, None,
                                     "verified", None, 0)}}
    /\ ParkThr /\ ParkUps /\ ParkPool /\ ParkProxy /\ ParkParse /\ ParkWin

NextAccImport ==
    \/ ImportAccountsFromText
    \/ AddCard
    \/ CollectCards

SpecAccImport == InitAccImport /\ [][NextAccImport]_vars

\* C16: import_accounts_from_text reports what it stored: each line counted
\* in success_count has a row with its email in accounts when the function
\* returns, and each line whose database write failed is counted in
\* error_count with an entry in errors.
C16_ImportReportsStored ==
    aimp.call # NotCalled =>
       /\ aimp.success_count = Len(aimp.counted)
       /\ aimp.error_count = Len(aimp.errors)
       /\ \A k \in 1..Len(aimp.counted) :
             \E r \in accounts : r.email = aimp.counted[k][2]
       /\ \A n \in aimp.failed :
             \E k \in 1..Len(aimp.errors) : aimp.errors[k][1] = n

\* an import during which no write failed stores every line it counts
C16_StoredUnlessFailed ==
    (aimp.call # NotCalled /\ aimp.failed = {}) =>
       /\ aimp.success_count = Len(aimp.counted)
       /\ aimp.error_count = Len(aimp.errors)
       /\ \A k \in 1..Len(aimp.counted) :
             \E r \in accounts : r.email = aimp.counted[k][2]

====
